---- MODULE Spec2Model ----
(***************************************************************************)
(* Task Manager coordination core: the facade (schedule, ensureScheduled,  *)
(* runNow, start, stop, pollForWork), the run-now synchronizer             *)
(* (awaitTaskRunResult) and the collaborators it drives (task store,       *)
(* poller request buffer, worker pool, task runner).                       *)
(***************************************************************************)
EXTENDS Integers, Sequences, FiniteSets, TLC

(***************************************************************************)
(* Bounds of the model.                                                    *)
(***************************************************************************)
\* config.request_capacity, the size of the poller's request buffer
RequestCapacity == 1
\* config.max_workers, the size of the worker pool
MaxWorkers == 2
\* the last tick of the clock
MaxTime == 1
\* the number of revisions the store hands out
MaxSeq == 7
\* claimOwnershipUntil = intervalFromNow('30s'), in ticks
ClaimWindow == 1
\* config.max_attempts
MaxAttempts == 2
\* the delay of a retry after a failed run: 5 minutes, in ticks
RetryDelay == 10
\* the runAt an executor returns: 60s after the run, in ticks
ReturnedDelay == 2
\* the interval of a recurring task: 30m, in ticks
RecurringInterval == 60
\* the configured poll_interval, the unit of the managed pollInterval
PollInterval == 1
\* the longest middleware chain the plugin is given
MaxMiddleware == 2
\* the configured maximum of the managed pollInterval, in poll intervals
MaxPollInterval == 16
\* the decay factor d of the managed configuration, as the divisor 1/d
DecayDivisor == 2
\* the additive step of a recovery
RecoveryStep == 1
\* the overload errors the controller counts in one observation window
MaxWindowErrors == 2
\* max_poll_inactivity_cycles (10 by default), scaled down
MaxPollInactivityCycles == 2

TaskIds == {"t1", "t2"}
\* the instance whose facade is modelled, and a peer on the same store
Facade == "k1"
Instances == {"k1", "k2"}
\* the callers of runNow, one promise each
Callers == {"c1", "c2"}

NoTask == "none"

\* the status code of a version conflict
VERSION_CONFLICT_STATUS == 409
\* the status code of a store that is failing (service unavailable)
STORE_FAILURE_STATUS == 503
\* an error without a statusCode (thrown by a middleware)
MIDDLEWARE_ERROR == 0
\* the status of a store call that succeeded
STORE_OK_STATUS == 200

\* TaskStatus
Statuses == {"idle", "claiming", "running", "failed"}
\* TaskLifecycleResult.NotFound
NotFound == "notFound"
\* outcome of a getLifecycle call that threw
LifecycleError == "lifecycleError"

EventKinds == {"Claim", "MarkRunning", "Run", "RunRequest"}

VARIABLES
  isStarted,   \* !pollingSubscription.closed
  requests,    \* the poller's buffer of explicit claim requests (task ids)
  calls,       \* runNow promises: one record per caller
  published    \* the events put on events$ by the last step that published

facadeVars == <<isStarted, requests, calls, published>>

VARIABLES
  now,         \* the clock, in ticks of the claim window (30s)
  store,       \* the task store: the document of every task id, or NoDoc
  seq,         \* the store's revision counter: the next version it hands out
  created      \* the number of documents the store has created, by id

storeVars == <<now, store, seq, created>>

VARIABLES
  sched        \* schedule / ensureScheduled calls: one record per caller

schedVars == <<sched>>

VARIABLES
  pool         \* the worker pool of every instance: the runners it holds

poolVars == <<pool>>

VARIABLES
  plugin,      \* the plugin: its polling lifecycle, definitions and middleware
  cycle,       \* the work cycle (pollForWork) in flight, and what it asked for
  logged,      \* the levels of the lines the work cycles have logged
  managed      \* the managed configuration: maxWorkers and pollInterval

VARIABLES
  subscription, \* pollingSubscription and the subscribers of poller$
  poller        \* the poller's timer, its work call and the monitor's watch

pollerVars == <<subscription, poller>>

lifecycleVars == <<plugin, cycle, logged, managed, pollerVars>>

\* what the actions of the facade alone leave as it is
backendVars == <<now, store, seq, created, sched, pool, lifecycleVars>>

(***************************************************************************)
(* Lifecycle events.  payload is the status of the task carried by the     *)
(* event (Claim(Err(Some(task)))) or NoTask (Claim(Err(None)), and events  *)
(* whose payload the synchronizer does not look at).                       *)
(***************************************************************************)
asEvent(kind, id, tag, payload) ==
  [kind |-> kind, id |-> id, tag |-> tag, payload |-> payload]

isTaskClaimEvent(e) == e.kind = "Claim"
isTaskRunEvent(e) == e.kind = "Run"
isTaskRunRequestEvent(e) == e.kind = "RunRequest"

asTaskRunRequestEvent(id, tag) == asEvent("RunRequest", id, tag, NoTask)

Events ==
  { asEvent(k, id, tag, p) :
      k \in EventKinds, id \in TaskIds, tag \in {"ok", "err"},
      p \in {NoTask} } \cup
  { asEvent("Claim", id, "err", s) : id \in TaskIds, s \in Statuses }

(***************************************************************************)
(* A runNow promise.                                                       *)
(*   phase: unused (runNow not called), pending, lifecycle (Claim(Err)     *)
(*          seen, the rejection awaits the task's lifecycle), resolved,    *)
(*          rejected                                                       *)
(*   subscribed: the subscription on events$ is active                     *)
(*   settles: number of resolve/reject calls made on the promise           *)
(***************************************************************************)
UnusedCall ==
  [taskId |-> NoTask, phase |-> "unused", subscribed |-> FALSE, settles |-> 0,
   result |-> "none", by |-> "none", carried |-> NoTask]

\* resolve/reject of a JS promise: only the first call decides the outcome
Settle(call, phase, result, by) ==
  IF call.phase \in {"resolved", "rejected"}
  THEN [call EXCEPT !.settles = @ + 1]
  ELSE [call EXCEPT !.phase = phase, !.result = result, !.by = by,
                    !.settles = @ + 1]

\* OnTaskEvent with the subscription kept after a Claim(Err)
OnTaskEventKeepsSubscription(call, e) ==
  IF ~call.subscribed \/ e.id # call.taskId
  THEN call
  ELSE IF isTaskClaimEvent(e)
  THEN IF e.tag = "err"
       THEN [call EXCEPT !.phase = "lifecycle",
                         !.carried = e.payload, !.by = "Claim.err"]
       ELSE call
  ELSE IF e.tag = "ok"
  THEN IF isTaskRunEvent(e)
       THEN Settle([call EXCEPT !.subscribed = FALSE], "resolved", e.id, "Run.ok")
       ELSE call
  ELSE IF isTaskRunRequestEvent(e)
  THEN Settle([call EXCEPT !.subscribed = FALSE], "rejected", "atCapacity",
              "RunRequest.err")
  ELSE Settle([call EXCEPT !.subscribed = FALSE], "rejected", "failed",
              e.kind \o ".err")

\* OnTaskEvent resolving on every Ok event that is not a Claim
OnTaskEventResolvesOnAnyOk(call, e) ==
  IF ~call.subscribed \/ e.id # call.taskId
  THEN call
  ELSE IF isTaskClaimEvent(e)
  THEN IF e.tag = "err"
       THEN [call EXCEPT !.subscribed = FALSE, !.phase = "lifecycle",
                         !.carried = e.payload, !.by = "Claim.err"]
       ELSE call
  ELSE IF e.tag = "ok"
  THEN Settle([call EXCEPT !.subscribed = FALSE], "resolved", e.id,
              e.kind \o ".ok")
  ELSE IF isTaskRunRequestEvent(e)
  THEN Settle([call EXCEPT !.subscribed = FALSE], "rejected", "atCapacity",
              "RunRequest.err")
  ELSE Settle([call EXCEPT !.subscribed = FALSE], "rejected", "failed",
              e.kind \o ".err")

\* the subscriber of awaitTaskRunResult, applied to one event of events$
OnTaskEvent(call, e) ==
  IF ~call.subscribed \/ e.id # call.taskId
  THEN call
  ELSE IF isTaskClaimEvent(e)
  THEN IF e.tag = "err"
       THEN [call EXCEPT !.subscribed = FALSE, !.phase = "lifecycle",
                         !.carried = e.payload, !.by = "Claim.err"]
       ELSE call
  ELSE IF e.tag = "ok"
  THEN IF isTaskRunEvent(e)
       THEN Settle([call EXCEPT !.subscribed = FALSE], "resolved", e.id, "Run.ok")
       ELSE call
  ELSE IF isTaskRunRequestEvent(e)
  THEN Settle([call EXCEPT !.subscribed = FALSE], "rejected", "atCapacity",
              "RunRequest.err")
  ELSE Settle([call EXCEPT !.subscribed = FALSE], "rejected", "failed",
              e.kind \o ".err")

\* ClaimErrorFor that takes only the status running as a run in progress
ClaimErrorForRunningOnly(taskLifecycleStatus) ==
  IF taskLifecycleStatus = LifecycleError THEN "lifecycleFailed"
  ELSE IF taskLifecycleStatus = NotFound THEN "notExist"
  ELSE IF taskLifecycleStatus = "running" THEN "currentlyRunning"
  ELSE "unknown"

\* ClaimErrorFor without the case of a task that is not found
ClaimErrorForWithoutNotFound(taskLifecycleStatus) ==
  IF taskLifecycleStatus = LifecycleError THEN "lifecycleFailed"
  ELSE IF taskLifecycleStatus \in {"running", "claiming"} THEN "currentlyRunning"
  ELSE "unknown"

\* the message of the rejection that follows a Claim(Err), by lifecycle status
ClaimErrorFor(taskLifecycleStatus) ==
  IF taskLifecycleStatus = LifecycleError THEN "lifecycleFailed"
  ELSE IF taskLifecycleStatus = NotFound THEN "notExist"
  ELSE IF taskLifecycleStatus \in {"running", "claiming"} THEN "currentlyRunning"
  ELSE "unknown"

\* events$.next(event): every subscriber sees the event synchronously
Emit(cs, e) == [c \in Callers |-> OnTaskEvent(cs[c], e)]

RECURSIVE EmitAll(_, _)
EmitAll(cs, es) ==
  IF es = <<>> THEN cs ELSE EmitAll(Emit(cs, Head(es)), Tail(es))

\* PollingError: its type and the request it is tagged with
asPollingError(type, data) == [type |-> type, data |-> data]

PollingErrorTypes == {"WorkError", "WorkTimeout", "RequestCapacityReached"}

\* the poller's buffer: an explicit request is pushed, or refused when full
BufferFull(buffer) == Len(buffer) >= RequestCapacity

PushRequest(buffer, id) ==
  IF BufferFull(buffer) THEN buffer ELSE Append(buffer, id)

\* the errors the poller emits for a request pushed into it
PushErrors(buffer, id) ==
  IF BufferFull(buffer)
  THEN <<asPollingError("RequestCapacityReached", id)>>
  ELSE <<>>

\* OnPollingError that only logs the error
OnPollingErrorOnlyLogs(error) == <<>>

\* start(): the subscriber of poller$ turns a polling error into events
OnPollingError(error) ==
  IF error.type = "RequestCapacityReached" /\ error.data # NoTask
  THEN <<asTaskRunRequestEvent(error.data, "err")>>
  ELSE <<>>

\* the events the facade publishes for a request pushed into the poller
RequestEvents(buffer, id) ==
  LET errors == PushErrors(buffer, id)
  IN IF errors = <<>> THEN <<>> ELSE OnPollingError(errors[1])

\* awaitTaskRunResult(taskId, ...): subscribe to events$
Subscribe(call, id) ==
  [call EXCEPT !.taskId = id, !.phase = "pending", !.subscribed = TRUE]

\* runNow with attemptToRun before the subscription
RunNowCallsEnqueueFirst(cs, c, id, started, buffer) ==
  LET emitted == IF started THEN EmitAll(cs, RequestEvents(buffer, id)) ELSE cs
  IN [emitted EXCEPT ![c] = Subscribe(emitted[c], id)]

\* runNow(taskId): subscribe, then attemptToRun(taskId)
RunNowCalls(cs, c, id, started, buffer) ==
  LET subscribed == [cs EXCEPT ![c] = Subscribe(cs[c], id)]
  IN IF started THEN EmitAll(subscribed, RequestEvents(buffer, id))
     ELSE subscribed

(***************************************************************************)
(* The facade against an arbitrary publisher of lifecycle events.          *)
(***************************************************************************)
FacadeInit ==
  /\ isStarted = FALSE
  /\ requests = <<>>
  /\ calls = [c \in Callers |-> UnusedCall]
  /\ published = <<>>

\* the plugin before setup hands out its contract: no polling lifecycle yet
NoPlugin ==
  [taskPollingLifecycle |-> FALSE, definitions |-> {}, middleware |-> <<>>,
   threw |-> FALSE]

\* no work cycle in flight
NoCycle == [stage |-> "idle", size |-> 0, claimTasksById |-> {}]

\* the managed configuration starts at the configured values
ConfiguredValues ==
  [maxWorkers |-> MaxWorkers, pollInterval |-> PollInterval, errors |-> 0,
   lastError |-> "none"]

\* Subscription.EMPTY is closed; nothing is subscribed to poller$ and no
\* call of start or stop has had an effect
EMPTY == [closed |-> TRUE, subscribers |-> 0, did |-> <<>>]

\* a poller as createTaskPoller makes it: its timer starts, no work call is
\* under way, and the monitor has seen nothing yet
NewPoller ==
  [timer |-> 0, since |-> 0, work |-> FALSE, elapsed |-> 0, last |-> "none",
   by |-> "none", delivered |-> <<>>]

LifecycleInit ==
  /\ plugin = NoPlugin
  /\ cycle = NoCycle
  /\ logged = {}
  /\ managed = ConfiguredValues
  /\ subscription = EMPTY
  /\ poller = NewPoller

\* pool.cancelRunningTasks(): every runner the pool holds is signalled
cancelRunningTasks(runners) == { [r EXCEPT !.cancelled = TRUE] : r \in runners }

Start ==
  /\ ~isStarted
  /\ isStarted' = TRUE
  /\ UNCHANGED <<requests, calls, published, backendVars>>

Stop ==
  /\ isStarted
  /\ isStarted' = FALSE
  /\ pool' = [pool EXCEPT ![Facade] = cancelRunningTasks(@)]
  /\ UNCHANGED <<requests, calls, published, storeVars, sched, lifecycleVars>>

RunNow(c, id) ==
  /\ calls[c].phase = "unused"
  /\ calls' = RunNowCalls(calls, c, id, isStarted, requests)
  /\ requests' = IF isStarted THEN PushRequest(requests, id) ELSE requests
  /\ published' = IF isStarted THEN RequestEvents(requests, id) ELSE <<>>
  /\ UNCHANGED <<isStarted, backendVars>>

\* the store or a runner publishes an event
Publish(e) ==
  /\ ~(isTaskRunRequestEvent(e) /\ e.tag = "err")
  /\ calls' = Emit(calls, e)
  /\ published' = <<e>>
  /\ UNCHANGED <<isStarted, requests, backendVars>>

\* the poller reports an error of a work cycle
PollError(error) ==
  /\ isStarted
  /\ calls' = EmitAll(calls, OnPollingError(error))
  /\ published' = OnPollingError(error)
  /\ UNCHANGED <<isStarted, requests, backendVars>>

\* the poller drains its buffer into a work cycle
Drain ==
  /\ isStarted
  /\ requests # <<>>
  /\ requests' = <<>>
  /\ published' = <<>>
  /\ UNCHANGED <<isStarted, calls, backendVars>>

\* a rejection that asks getLifecycle whatever the event carries
TaskLifecycleStatusAlwaysAsks(carried, lifecycle) == lifecycle

\* the status the rejection goes by: that of the task the event carries
\* (mapOptional), or else what getLifecycle answers (getOrElse)
TaskLifecycleStatus(carried, lifecycle) ==
  IF carried # NoTask THEN carried ELSE lifecycle

\* the rejection after a Claim(Err): the task's status comes from the event
\* when it carries the task, from getLifecycle otherwise
SettleClaimErr(c, lifecycle) ==
  /\ calls[c].phase = "lifecycle"
  /\ calls' = [calls EXCEPT ![c] =
       Settle(@, "rejected",
              ClaimErrorFor(TaskLifecycleStatus(@.carried, lifecycle)),
              @.by)]
  /\ published' = <<>>
  /\ UNCHANGED <<isStarted, requests, backendVars>>

FacadeNext ==
  \/ Start
  \/ Stop
  \/ \E c \in Callers, id \in TaskIds : RunNow(c, id)
  \/ \E e \in Events : Publish(e)
  \/ \E type \in {"WorkError", "WorkTimeout"} :
       PollError(asPollingError(type, NoTask))
  \/ Drain
  \/ \E c \in Callers, l \in Statuses \cup {NotFound, LifecycleError} :
       SettleClaimErr(c, l)

vars == <<facadeVars, storeVars, schedVars, poolVars, lifecycleVars>>

(***************************************************************************)
(* The task store.                                                         *)
(***************************************************************************)
NoDoc == [status |-> NotFound]
NoOwner == "none"
Never == -1

Exists(st, id) == st[id] # NoDoc

StoreInit ==
  /\ now = 0
  /\ store = [id \in TaskIds |-> NoDoc]
  /\ seq = 1
  /\ created = [id \in TaskIds |-> 0]

\* the document store.schedule writes for a task instance
NewDoc(task, version, time) ==
  [status |-> "idle", runAt |-> time + task.delay, retryAt |-> Never,
   attempts |-> 0, ownerId |-> NoOwner, version |-> version,
   interval |-> task.interval, count |-> 0, params |-> task.params]

\* store.schedule(task): a create that fails when the id is taken, or when
\* the store is failing
StoreSchedule(st, task, version, time, failing) ==
  IF failing THEN [tag |-> "err", statusCode |-> STORE_FAILURE_STATUS]
  ELSE IF Exists(st, task.id)
  THEN [tag |-> "err", statusCode |-> VERSION_CONFLICT_STATUS]
  ELSE [tag |-> "ok", doc |-> NewDoc(task, version, time), id |-> task.id]

(***************************************************************************)
(* schedule and ensureScheduled.                                           *)
(***************************************************************************)
ScheduleCallers == {"s1", "s2"}
Params == {"pA", "pB"}

TaskInstances ==
  [id : TaskIds, params : Params, interval : {0}, delay : {0}]

\* middleware.beforeSave: the pre-save transform of the task instance
BeforeSaveTask(task) == [task EXCEPT !.params = <<"beforeSave", @>>]

\* answer: the status of what schedule() ended with (history)
IdleSched ==
  [op |-> "none", pc |-> "idle", task |-> NoTask, saved |-> NoTask,
   returned |-> NoTask, error |-> 0, answer |-> 0]

AnswerStatus(answer) ==
  IF answer.tag = "ok" THEN STORE_OK_STATUS ELSE answer.statusCode

\* what schedule() gives its caller for the store's answer
ScheduleOutcome(call, answer) ==
  IF answer.tag = "ok"
  THEN [call EXCEPT !.pc = "returned",
                    !.returned = [id |-> answer.id, params |-> answer.doc.params]]
  ELSE [call EXCEPT !.pc = "thrown", !.error = answer.statusCode]

\* ensureScheduled that swallows every error of schedule
EnsureScheduledSwallowsAll(call, answer) ==
  IF answer.tag = "ok"
  THEN ScheduleOutcome(call, answer)
  ELSE [call EXCEPT !.pc = "returned",
                    !.returned = [id |-> call.task.id, params |-> call.task.params]]

\* ensureScheduled that rethrows the version conflict
EnsureScheduledRethrows(call, answer) == ScheduleOutcome(call, answer)

\* what ensureScheduled() gives its caller for the store's answer
EnsureScheduledOutcome(call, answer) ==
  IF answer.tag = "ok"
  THEN ScheduleOutcome(call, answer)
  ELSE IF answer.statusCode = VERSION_CONFLICT_STATUS
  THEN [call EXCEPT !.pc = "returned",
                    !.returned = [id |-> call.task.id, params |-> call.task.params]]
  ELSE [call EXCEPT !.pc = "thrown", !.error = answer.statusCode]

SchedInit == sched = [s \in ScheduleCallers |-> IdleSched]

\* schedule(taskInstance) or ensureScheduled(taskInstance) is called
CallSchedule(s, op, task) ==
  /\ sched[s].pc = "idle"
  /\ sched' = [sched EXCEPT ![s] =
       [@ EXCEPT !.op = op, !.pc = "beforeSave", !.task = task]]
  /\ UNCHANGED <<facadeVars, storeVars, poolVars, lifecycleVars>>

\* await middleware.beforeSave(...): it returns the task to save, or throws
BeforeSave(s, throws) ==
  /\ sched[s].pc = "beforeSave"
  /\ LET answer == [tag |-> "err", statusCode |-> MIDDLEWARE_ERROR]
         call == [sched[s] EXCEPT !.answer = AnswerStatus(answer)]
     IN sched' = [sched EXCEPT ![s] =
          IF throws
          THEN IF @.op = "ensureScheduled"
               THEN EnsureScheduledOutcome(call, answer)
               ELSE ScheduleOutcome(call, answer)
          ELSE [@ EXCEPT !.pc = "store", !.saved = BeforeSaveTask(sched[s].task)]]
  /\ UNCHANGED <<facadeVars, storeVars, poolVars, lifecycleVars>>

\* await store.schedule(modifiedTask), and the return or throw that follows
StoreCreate(s, failing) ==
  /\ sched[s].pc = "store"
  /\ LET answer == StoreSchedule(store, sched[s].saved, seq, now, failing)
         call == [sched[s] EXCEPT !.answer = AnswerStatus(answer)]
     IN /\ sched' = [sched EXCEPT ![s] =
             IF @.op = "ensureScheduled"
             THEN EnsureScheduledOutcome(call, answer)
             ELSE ScheduleOutcome(call, answer)]
        /\ IF answer.tag = "ok"
           THEN /\ store' = [store EXCEPT ![answer.id] = answer.doc]
                /\ seq' = seq + 1
                /\ created' = [created EXCEPT ![answer.id] = @ + 1]
           ELSE UNCHANGED <<store, seq, created>>
  /\ UNCHANGED <<facadeVars, now, poolVars, lifecycleVars>>

PoolInit == pool = [k \in Instances |-> {}]

ScheduleInit == FacadeInit /\ StoreInit /\ SchedInit /\ PoolInit /\ LifecycleInit

FacadeOnlyInit == FacadeInit /\ StoreInit /\ SchedInit /\ PoolInit /\ LifecycleInit

ScheduleNext ==
  \/ \E s \in ScheduleCallers, op \in {"schedule", "ensureScheduled"},
        task \in TaskInstances : CallSchedule(s, op, task)
  \/ \E s \in ScheduleCallers, throws \in BOOLEAN : BeforeSave(s, throws)
  \/ \E s \in ScheduleCallers, failing \in BOOLEAN : StoreCreate(s, failing)

SpecSchedule == ScheduleInit /\ [][ScheduleNext]_vars

SpecFacade == FacadeOnlyInit /\ [][FacadeNext]_vars

\* what getLifecycle may answer: a status, NotFound, or a failure
Lifecycles == Statuses \cup {NotFound, LifecycleError}

\* the promises of runNow against the events of the store and the runners
SettleNext ==
  \/ \E c \in Callers, id \in TaskIds : RunNow(c, id)
  \/ \E e \in Events : Publish(e)
  \/ \E c \in Callers, l \in Lifecycles : SettleClaimErr(c, l)

\* the getLifecycle a rejection waits for always answers or fails in the end
SpecSettle ==
  /\ FacadeOnlyInit /\ [][SettleNext]_vars
  /\ WF_vars(\E c \in Callers, l \in Lifecycles : SettleClaimErr(c, l))

(***************************************************************************)
(* Claiming: the store's claimAvailableTasks, the facade's pollForWork.    *)
(***************************************************************************)
Min(a, b) == IF a < b THEN a ELSE b

RECURSIVE SetToSeq(_)
SetToSeq(S) ==
  IF S = {} THEN <<>>
  ELSE LET x == CHOOSE y \in S : TRUE IN <<x>> \o SetToSeq(S \ {x})

Range(q) == { q[i] : i \in 1..Len(q) }

\* tasksToClaim.splice(0, n)
Splice(q, n) == SubSeq(q, 1, Min(Len(q), n))

\* a lease that still runs: the task is claimed or running and retryAt is ahead
LeaseHeld(doc, time) ==
  doc.status \in {"claiming", "running"} /\ doc.retryAt > time

\* EligibleBySchedule that takes a claimed or running task whatever its lease
EligibleIgnoringLease(doc, time) ==
  /\ doc # NoDoc
  /\ doc.status \in {"idle", "claiming", "running"}
  /\ doc.runAt <= time

\* a task the poll cycle may claim by schedule
EligibleBySchedule(doc, time) ==
  /\ doc # NoDoc
  /\ doc.status \in {"idle", "claiming", "running"}
  /\ doc.runAt <= time
  /\ doc.status = "idle" \/ doc.retryAt <= time

\* a task the poll cycle may claim because its id was requested
EligibleById(doc, time) ==
  /\ doc # NoDoc
  /\ ~LeaseHeld(doc, time)

StatusPriority(status) ==
  CASE status = "claiming" -> 0
    [] status = "idle" -> 1
    [] status = "running" -> 2
    [] OTHER -> 3

ClaimedBefore(a, b) ==
  \/ StatusPriority(a.status) < StatusPriority(b.status)
  \/ StatusPriority(a.status) = StatusPriority(b.status) /\ a.runAt <= b.runAt

\* the sets of tasks one claim of `size` may take: the requested ids that
\* can be claimed, then the due tasks by status priority and runAt
ClaimSelections(st, time, size, byId) ==
  LET pinned == { id \in byId : EligibleById(st[id], time) }
      due == { id \in TaskIds \ pinned : EligibleBySchedule(st[id], time) }
      n == Min(size - Cardinality(pinned), Cardinality(due))
  IN { pinned \cup S : S \in
         { T \in SUBSET due :
             /\ Cardinality(T) = n
             /\ \A a \in T, b \in due \ T : ClaimedBefore(st[a], st[b]) } }

ClaimDoc(doc, k, until, version) ==
  [doc EXCEPT !.status = "claiming", !.ownerId = k, !.retryAt = until,
              !.version = version]

\* the store after a claim of the tasks in `claimed` by instance k
StoreAfterClaim(st, claimed, k, until, version) ==
  [id \in TaskIds |->
     IF id \in claimed THEN ClaimDoc(st[id], k, until, version) ELSE st[id]]

\* the Claim events of a claim: Ok for every claimed task, Err for every
\* requested id that was not claimed, with the task when `carry` says so
\* and the task exists
ClaimEvents(st, claimed, byId, carry) ==
  LET ok == SetToSeq({ asEvent("Claim", id, "ok", NoTask) : id \in claimed })
      err == SetToSeq({ asEvent("Claim", id, "err",
                          IF carry /\ Exists(st, id) THEN st[id].status ELSE NoTask) :
                        id \in byId \ claimed })
  IN ok \o err

\* createTaskRunnerForTask whose runner counts as marked running already
createTaskRunnerForTaskRunning(id, doc) ==
  [id |-> id, version |-> doc.version, attempts |-> doc.attempts,
   interval |-> doc.interval, count |-> doc.count, stage |-> "running",
   cancelled |-> FALSE]

\* TaskManagerRunner for a claimed document
createTaskRunnerForTask(id, doc) ==
  [id |-> id, version |-> doc.version, attempts |-> doc.attempts,
   interval |-> doc.interval, count |-> doc.count, stage |-> "claimed",
   cancelled |-> FALSE]

\* availableWorkers that counts one worker too many
availableWorkersOffByOne(runners) == MaxWorkers - Cardinality(runners) + 1

\* availableWorkers that takes every worker for free
availableWorkersIgnoresRunners(runners) == MaxWorkers

availableWorkers(runners) == MaxWorkers - Cardinality(runners)

\* pool.run(runners): the pools that accept as many runners as are free
PoolRuns(runners, new) ==
  IF Cardinality(new) <= availableWorkers(runners)
  THEN { runners \cup new }
  ELSE { runners \cup T : T \in
           { U \in SUBSET new :
               Cardinality(U) = IF availableWorkers(runners) > 0
                                THEN availableWorkers(runners) ELSE 0 } }

\* pollForWork that passes no requested id on to the store
ClaimTasksByIdDropsRequests(tasksToClaim, runners) == {}

\* pollForWork(...tasksToClaim): the ids it asks the store to claim
ClaimTasksById(tasksToClaim, runners) ==
  Range(Splice(tasksToClaim, availableWorkers(runners)))

(***************************************************************************)
(* The task runner: markRunning, and the outcome of a run.                 *)
(***************************************************************************)
\* an optimistic write of a runner is refused: the document is gone or its
\* version is not the one the runner read
VersionConflict(st, r) ==
  ~Exists(st, r.id) \/ st[r.id].version # r.version

MarkedRunning(doc, version) ==
  [doc EXCEPT !.status = "running", !.version = version]

\* RunOutcome that goes on retrying when the attempts are used up
RunOutcomeNeverFails(r, result, time) ==
  IF result = "ok" /\ r.interval = 0
  THEN [op |-> "remove", tag |-> "ok"]
  ELSE IF result \in {"ok", "okRunAt"}
  THEN [op |-> "update", tag |-> "ok", status |-> "idle", attempts |-> 0,
        count |-> r.count + 1,
        runAt |-> IF result = "okRunAt" THEN time + ReturnedDelay
                  ELSE time + r.interval]
  ELSE IF r.attempts + 1 < MaxAttempts \/ r.interval = 0
  THEN [op |-> "update", tag |-> "err", status |-> "idle",
        attempts |-> r.attempts + 1, count |-> r.count,
        runAt |-> time + RetryDelay]
  ELSE [op |-> "update", tag |-> "err", status |-> "idle", attempts |-> 0,
        count |-> r.count, runAt |-> time + r.interval]

\* RunOutcome that retries a failed run at once
RunOutcomeRetriesAtOnce(r, result, time) ==
  IF result = "ok" /\ r.interval = 0
  THEN [op |-> "remove", tag |-> "ok"]
  ELSE IF result \in {"ok", "okRunAt"}
  THEN [op |-> "update", tag |-> "ok", status |-> "idle", attempts |-> 0,
        count |-> r.count + 1,
        runAt |-> IF result = "okRunAt" THEN time + ReturnedDelay
                  ELSE time + r.interval]
  ELSE IF r.attempts + 1 < MaxAttempts
  THEN [op |-> "update", tag |-> "err", status |-> "idle",
        attempts |-> r.attempts + 1, count |-> r.count, runAt |-> time]
  ELSE IF r.interval > 0
  THEN [op |-> "update", tag |-> "err", status |-> "idle", attempts |-> 0,
        count |-> r.count, runAt |-> time + r.interval]
  ELSE [op |-> "update", tag |-> "err", status |-> "failed",
        attempts |-> r.attempts + 1, count |-> r.count, runAt |-> time]

\* RunOutcome that leaves the attempts of a recurring task as they were
\* when its run succeeds
RunOutcomeKeepsAttempts(r, result, time) ==
  IF result = "ok" /\ r.interval = 0
  THEN [op |-> "remove", tag |-> "ok"]
  ELSE IF result \in {"ok", "okRunAt"}
  THEN [op |-> "update", tag |-> "ok", status |-> "idle",
        attempts |-> IF r.interval > 0 THEN r.attempts ELSE 0,
        count |-> r.count + 1,
        runAt |-> IF result = "okRunAt" THEN time + ReturnedDelay
                  ELSE time + r.interval]
  ELSE IF r.attempts + 1 < MaxAttempts
  THEN [op |-> "update", tag |-> "err", status |-> "idle",
        attempts |-> r.attempts + 1, count |-> r.count,
        runAt |-> time + RetryDelay]
  ELSE IF r.interval > 0
  THEN [op |-> "update", tag |-> "err", status |-> "idle", attempts |-> 0,
        count |-> r.count, runAt |-> time + r.interval]
  ELSE [op |-> "update", tag |-> "err", status |-> "failed",
        attempts |-> r.attempts + 1, count |-> r.count, runAt |-> time]

\* RunOutcome that does not look at the runAt the executor returns
RunOutcomeIgnoresRunAt(r, result, time) ==
  IF result \in {"ok", "okRunAt"} /\ r.interval = 0
  THEN [op |-> "remove", tag |-> "ok"]
  ELSE IF result \in {"ok", "okRunAt"}
  THEN [op |-> "update", tag |-> "ok", status |-> "idle", attempts |-> 0,
        count |-> r.count + 1, runAt |-> time + r.interval]
  ELSE IF r.attempts + 1 < MaxAttempts
  THEN [op |-> "update", tag |-> "err", status |-> "idle",
        attempts |-> r.attempts + 1, count |-> r.count,
        runAt |-> time + RetryDelay]
  ELSE IF r.interval > 0
  THEN [op |-> "update", tag |-> "err", status |-> "idle", attempts |-> 0,
        count |-> r.count, runAt |-> time + r.interval]
  ELSE [op |-> "update", tag |-> "err", status |-> "failed",
        attempts |-> r.attempts + 1, count |-> r.count, runAt |-> time]

\* RunOutcome that keeps a non-recurring task that has completed
RunOutcomeKeepsCompleted(r, result, time) ==
  IF result \in {"ok", "okRunAt"}
  THEN [op |-> "update", tag |-> "ok", status |-> "idle", attempts |-> 0,
        count |-> r.count + 1,
        runAt |-> IF result = "okRunAt" THEN time + ReturnedDelay
                  ELSE time + r.interval]
  ELSE IF r.attempts + 1 < MaxAttempts
  THEN [op |-> "update", tag |-> "err", status |-> "idle",
        attempts |-> r.attempts + 1, count |-> r.count,
        runAt |-> time + RetryDelay]
  ELSE IF r.interval > 0
  THEN [op |-> "update", tag |-> "err", status |-> "idle", attempts |-> 0,
        count |-> r.count, runAt |-> time + r.interval]
  ELSE [op |-> "update", tag |-> "err", status |-> "failed",
        attempts |-> r.attempts + 1, count |-> r.count, runAt |-> time]

\* what the runner writes when its run has ended: the fields of the update,
\* or the removal of the document
RunOutcome(r, result, time) ==
  IF result = "ok" /\ r.interval = 0
  THEN [op |-> "remove", tag |-> "ok"]
  ELSE IF result \in {"ok", "okRunAt"}
  THEN [op |-> "update", tag |-> "ok", status |-> "idle", attempts |-> 0,
        count |-> r.count + 1,
        runAt |-> IF result = "okRunAt" THEN time + ReturnedDelay
                  ELSE time + r.interval]
  ELSE IF r.attempts + 1 < MaxAttempts
  THEN [op |-> "update", tag |-> "err", status |-> "idle",
        attempts |-> r.attempts + 1, count |-> r.count,
        runAt |-> time + RetryDelay]
  ELSE IF r.interval > 0
  THEN [op |-> "update", tag |-> "err", status |-> "idle", attempts |-> 0,
        count |-> r.count, runAt |-> time + r.interval]
  ELSE [op |-> "update", tag |-> "err", status |-> "failed",
        attempts |-> r.attempts + 1, count |-> r.count, runAt |-> time]

UpdatedDoc(doc, outcome, version) ==
  [doc EXCEPT !.status = outcome.status, !.attempts = outcome.attempts,
              !.count = outcome.count, !.runAt = outcome.runAt,
              !.ownerId = NoOwner, !.retryAt = Never, !.version = version]

\* store.getLifecycle(id)
GetLifecycle(st, id, failing) ==
  IF failing THEN LifecycleError
  ELSE IF Exists(st, id) THEN st[id].status ELSE NotFound

(***************************************************************************)
(* The instances on one store: the facade k1 and its peer.                 *)
(***************************************************************************)
Intervals == {0, RecurringInterval}

\* the task the system specification schedules; the other id is never there
ScheduledInstances ==
  [id : {"t1"}, params : {"pA"}, interval : Intervals, delay : {0, RecurringInterval}]

SystemInit == FacadeInit /\ StoreInit /\ SchedInit /\ PoolInit /\ LifecycleInit

\* schedule(taskInstance), from the call to the created document
ScheduleTask(task) ==
  /\ seq <= MaxSeq
  /\ ~Exists(store, task.id)
  /\ store' = [store EXCEPT ![task.id] = NewDoc(BeforeSaveTask(task), seq, now)]
  /\ seq' = seq + 1
  /\ created' = [created EXCEPT ![task.id] = @ + 1]
  /\ UNCHANGED <<facadeVars, now, sched, pool, lifecycleVars>>

Tick ==
  /\ now < MaxTime
  /\ now' = now + 1
  /\ UNCHANGED <<facadeVars, store, seq, created, sched, pool, lifecycleVars>>

\* one work cycle of instance k: the poller drains its requests into
\* pollForWork, which claims and hands the claimed tasks to the pool
Poll(k, carry) ==
  /\ k = Facade => isStarted
  /\ LET ids == IF k = Facade THEN requests ELSE <<>>
         size == availableWorkers(pool[k])
         byId == ClaimTasksById(ids, pool[k])
     IN IF size > 0
        THEN \E claimed \in ClaimSelections(store, now, size, byId) :
               /\ claimed # {} => seq <= MaxSeq
               /\ store' = StoreAfterClaim(store, claimed, k, now + ClaimWindow, seq)
               /\ seq' = IF claimed # {} THEN seq + 1 ELSE seq
               /\ \E runners \in PoolRuns(pool[k],
                       { createTaskRunnerForTask(id, store'[id]) : id \in claimed }) :
                    pool' = [pool EXCEPT ![k] = runners]
               /\ IF k = Facade
                  THEN /\ calls' = EmitAll(calls, ClaimEvents(store', claimed, byId, carry))
                       /\ published' = ClaimEvents(store', claimed, byId, carry)
                  ELSE UNCHANGED <<calls, published>>
        ELSE UNCHANGED <<store, seq, pool, calls, published>>
  /\ requests' = IF k = Facade THEN <<>> ELSE requests
  /\ UNCHANGED <<isStarted, now, created, sched, lifecycleVars>>

\* runner.markRunning() of a runner the pool has accepted
MarkRunning(k, r) ==
  /\ r \in pool[k]
  /\ r.stage = "claimed"
  /\ IF VersionConflict(store, r)
     THEN /\ pool' = [pool EXCEPT ![k] = @ \ {r}]
          /\ UNCHANGED <<store, seq>>
     ELSE /\ seq <= MaxSeq
          /\ store' = [store EXCEPT ![r.id] = MarkedRunning(@, seq)]
          /\ seq' = seq + 1
          /\ pool' = [pool EXCEPT ![k] =
               (@ \ {r}) \cup {[r EXCEPT !.stage = "running", !.version = seq]}]
  /\ LET e == asEvent("MarkRunning", r.id,
                      IF VersionConflict(store, r) THEN "err" ELSE "ok", NoTask)
     IN IF k = Facade
        THEN calls' = Emit(calls, e) /\ published' = <<e>>
        ELSE UNCHANGED <<calls, published>>
  /\ UNCHANGED <<isStarted, requests, now, created, sched, lifecycleVars>>

\* the run of a runner ends with `result`; the runner persists the outcome
\* and publishes the Run event
RunnerFinish(k, r, result) ==
  /\ r \in pool[k]
  /\ r.stage = "running"
  /\ LET outcome == RunOutcome(r, result, now)
         refused == outcome.op = "update" /\ VersionConflict(store, r)
         e == asEvent("Run", r.id, IF refused THEN "err" ELSE outcome.tag, NoTask)
     IN /\ IF outcome.op = "remove"
           THEN store' = [store EXCEPT ![r.id] = NoDoc] /\ UNCHANGED seq
           ELSE IF refused
           THEN UNCHANGED <<store, seq>>
           ELSE /\ seq <= MaxSeq
                /\ store' = [store EXCEPT ![r.id] = UpdatedDoc(@, outcome, seq)]
                /\ seq' = seq + 1
        /\ IF k = Facade
           THEN calls' = Emit(calls, e) /\ published' = <<e>>
           ELSE UNCHANGED <<calls, published>>
  /\ pool' = [pool EXCEPT ![k] = @ \ {r}]
  /\ UNCHANGED <<isStarted, requests, now, created, sched, lifecycleVars>>

RunResults == {"ok", "okRunAt", "fail"}

SystemNext ==
  \/ Start
  \/ \E c \in Callers, id \in TaskIds : RunNow(c, id)
  \/ \E task \in ScheduledInstances : ScheduleTask(task)
  \/ Tick
  \/ \E carry \in BOOLEAN : Poll(Facade, carry)
  \/ \E r \in pool[Facade] : MarkRunning(Facade, r)
  \/ \E r \in pool[Facade], result \in RunResults : RunnerFinish(Facade, r, result)
  \/ \E c \in Callers, failing \in BOOLEAN :
       SettleClaimErr(c, GetLifecycle(store, calls[c].taskId, failing))

SpecSystem == SystemInit /\ [][SystemNext]_vars

\* two instances polling one store, without explicit requests
LeaseNext ==
  \/ Start
  \/ \E task \in ScheduledInstances : ScheduleTask(task)
  \/ Tick
  \/ \E k \in Instances : Poll(k, FALSE)
  \/ \E k \in Instances : \E r \in pool[k] : MarkRunning(k, r)
  \/ \E k \in Instances : \E r \in pool[k], result \in RunResults :
       RunnerFinish(k, r, result)

SpecLease == SystemInit /\ [][LeaseNext]_vars

\* the documents of t1 the store may hold as the instances start: a task
\* that is due, after any number of failed attempts, or one that has failed
StoredDocs ==
  { [status |-> "idle", runAt |-> 0, retryAt |-> Never, attempts |-> a,
     ownerId |-> NoOwner, version |-> 1, interval |-> i, count |-> 0,
     params |-> <<"beforeSave", "pA">>] :
       a \in 0..(MaxAttempts - 1), i \in Intervals }
  \cup
  { [status |-> "failed", runAt |-> 0, retryAt |-> Never, attempts |-> MaxAttempts,
     ownerId |-> NoOwner, version |-> 1, interval |-> 0, count |-> 0,
     params |-> <<"beforeSave", "pA">>] }

\* instances that start on a store that holds a task already
RunnerInit ==
  /\ FacadeInit /\ SchedInit /\ PoolInit /\ LifecycleInit
  /\ now = 0
  /\ seq = 2
  /\ created = [id \in TaskIds |-> IF id = "t1" THEN 1 ELSE 0]
  /\ \E doc \in StoredDocs :
       store = [id \in TaskIds |-> IF id = "t1" THEN doc ELSE NoDoc]

SpecRunner == RunnerInit /\ [][LeaseNext]_vars

\* one instance that starts on a store whose task has failed
RerunInit ==
  /\ FacadeInit /\ SchedInit /\ PoolInit /\ LifecycleInit
  /\ now = 0
  /\ seq = 2
  /\ created = [id \in TaskIds |-> IF id = "t1" THEN 1 ELSE 0]
  /\ \E doc \in { d \in StoredDocs : d.status = "failed" } :
       store = [id \in TaskIds |-> IF id = "t1" THEN doc ELSE NoDoc]

RerunNext ==
  \/ Start
  \/ \E c \in Callers, id \in TaskIds : RunNow(c, id)
  \/ Tick
  \/ \E carry \in BOOLEAN : Poll(Facade, carry)
  \/ \E r \in pool[Facade] : MarkRunning(Facade, r)
  \/ \E r \in pool[Facade], result \in RunResults : RunnerFinish(Facade, r, result)
  \/ \E c \in Callers, failing \in BOOLEAN :
       SettleClaimErr(c, GetLifecycle(store, calls[c].taskId, failing))

SpecRerun == RerunInit /\ [][RerunNext]_vars

\* the facade's pool, given batches of claimed tasks of any size: the store
\* holds both tasks, due
PoolSpecInit ==
  /\ FacadeInit /\ SchedInit /\ PoolInit /\ LifecycleInit
  /\ now = 0
  /\ seq = 2
  /\ created = [id \in TaskIds |-> 1]
  /\ store \in [TaskIds -> { d \in StoredDocs : d.status = "idle" /\ d.attempts = 0 }]

\* the tasks in ids are claimed for instance k and pool.run is given their
\* runners, however many workers are free
RunBatch(k, ids) ==
  /\ ids # {}
  /\ \A id \in ids : EligibleBySchedule(store[id], now)
  /\ seq <= MaxSeq
  /\ store' = StoreAfterClaim(store, ids, k, now + ClaimWindow, seq)
  /\ seq' = seq + 1
  /\ \E runners \in PoolRuns(pool[k],
          { createTaskRunnerForTask(id, store'[id]) : id \in ids }) :
       pool' = [pool EXCEPT ![k] = runners]
  /\ UNCHANGED <<facadeVars, now, created, sched, lifecycleVars>>

PoolNext ==
  \/ \E ids \in SUBSET TaskIds : RunBatch(Facade, ids)
  \/ Tick
  \/ \E r \in pool[Facade] : MarkRunning(Facade, r)
  \/ \E r \in pool[Facade], result \in RunResults : RunnerFinish(Facade, r, result)

SpecPool == PoolSpecInit /\ [][PoolNext]_vars

\* one instance on a store of due tasks: the poller's timer keeps starting
\* work cycles and every run comes to an end
SaturationNext ==
  \/ Start
  \/ Tick
  \/ Poll(Facade, FALSE)
  \/ \E r \in pool[Facade] : MarkRunning(Facade, r)
  \/ \E r \in pool[Facade], result \in RunResults : RunnerFinish(Facade, r, result)

SaturationFairness ==
  /\ WF_vars(Start)
  /\ WF_vars(Poll(Facade, FALSE))
  /\ WF_vars(\E r \in pool[Facade] : MarkRunning(Facade, r))
  /\ WF_vars(\E r \in pool[Facade], result \in RunResults :
               RunnerFinish(Facade, r, result))

SpecSaturation == PoolSpecInit /\ [][SaturationNext]_vars /\ SaturationFairness

(***************************************************************************)
(* The work cycle in steps: pollForWork sends its claim to the store, and  *)
(* the store's answer comes back later.                                    *)
(***************************************************************************)
\* the errors a claim may fail with: the one whose diagnostic says inline
\* scripts are disabled, and any other
ClaimErrors == {"inlineScriptsDisabled", "storeFailure"}

\* claimAvailableTasks that makes its claim call whatever the capacity
HasCapacityAlways(size) == TRUE

\* claimAvailableTasks makes its claim call only when a worker is free
HasCapacity(size) == size > 0

\* a poller that gives up once a warning has been logged
PollerSubscribedUntilWarned == isStarted /\ "warn" \notin logged

\* the poller emits work cycles as long as start()'s subscription stands
PollerSubscribed == isStarted

\* claimAvailableTasks that rethrows every error of the claim
ClaimFailureRethrowsAll(error) == [level |-> "error", thrown |-> TRUE]

\* the catch of claimAvailableTasks: the error that says inline scripts are
\* disabled is logged as a warning and swallowed, any other is rethrown and
\* logged as an error by the subscriber of the poller
ClaimFailure(error) ==
  IF error = "inlineScriptsDisabled"
  THEN [level |-> "warn", thrown |-> FALSE]
  ELSE [level |-> "error", thrown |-> TRUE]

\* the poller starts a work cycle with the requests it has buffered:
\* pollForWork calls claimAvailableTasks, which sends the claim to the store
\* or skips the cycle
PollForWorkCall ==
  /\ PollerSubscribed
  /\ cycle.stage = "idle"
  /\ LET size == availableWorkers(pool[Facade])
         byId == ClaimTasksById(requests, pool[Facade])
     IN IF HasCapacity(size)
        THEN /\ cycle' = [stage |-> "claiming", size |-> size,
                          claimTasksById |-> byId]
             /\ UNCHANGED logged
        ELSE /\ cycle' = NoCycle
             /\ logged' = logged \cup {"debug"}
  /\ requests' = <<>>
  /\ UNCHANGED <<isStarted, calls, published, storeVars, sched, pool, plugin,
                 managed, subscription>>

\* the same with the poller's timers left out of the picture
PollForWork == PollForWorkCall /\ UNCHANGED poller

\* the claim comes back with the claimed tasks: the store publishes the
\* Claim events and the runners of the tasks are handed to the pool
ClaimResolved(carry) ==
  /\ cycle.stage = "claiming"
  /\ \E claimed \in ClaimSelections(store, now, cycle.size, cycle.claimTasksById) :
       /\ claimed # {} => seq <= MaxSeq
       /\ store' = StoreAfterClaim(store, claimed, Facade, now + ClaimWindow, seq)
       /\ seq' = IF claimed # {} THEN seq + 1 ELSE seq
       /\ \E runners \in PoolRuns(pool[Facade],
               { createTaskRunnerForTask(id, store'[id]) : id \in claimed }) :
            pool' = [pool EXCEPT ![Facade] = runners]
       /\ calls' = EmitAll(calls,
                      ClaimEvents(store', claimed, cycle.claimTasksById, carry))
       /\ published' = ClaimEvents(store', claimed, cycle.claimTasksById, carry)
  /\ cycle' = NoCycle
  /\ UNCHANGED <<isStarted, requests, now, created, sched, plugin, logged,
                 managed, subscription>>

\* the same with the poller's timers left out of the picture
ClaimResolves(carry) == ClaimResolved(carry) /\ UNCHANGED poller

\* the claim fails: claimAvailableTasks warns and returns no task when the
\* error says inline scripts are disabled, and rethrows any other error to
\* the poller, whose subscriber logs it
ClaimRejected(error) ==
  /\ cycle.stage = "claiming"
  /\ cycle' = NoCycle
  /\ LET failure == ClaimFailure(error)
         reported == failure.thrown /\ isStarted
     IN /\ logged' = IF failure.thrown /\ ~isStarted THEN logged
                     ELSE logged \cup {failure.level}
        /\ calls' = IF reported
                    THEN EmitAll(calls,
                           OnPollingError(asPollingError("WorkError", NoTask)))
                    ELSE calls
        /\ published' = IF reported
                        THEN OnPollingError(asPollingError("WorkError", NoTask))
                        ELSE <<>>
  /\ UNCHANGED <<isStarted, requests, storeVars, sched, pool, plugin, managed,
                 subscription>>

\* the same with the poller's timers left out of the picture
ClaimRejects(error) == ClaimRejected(error) /\ UNCHANGED poller

\* the facade is started and stopped while its work cycles are under way
CycleNext ==
  \/ Start
  \/ Stop
  \/ PollForWork
  \/ \E carry \in BOOLEAN : ClaimResolves(carry)
  \/ \E error \in ClaimErrors : ClaimRejects(error)
  \/ \E r \in pool[Facade] : MarkRunning(Facade, r)
  \/ \E r \in pool[Facade], result \in RunResults : RunnerFinish(Facade, r, result)

SpecCycle == PoolSpecInit /\ [][CycleNext]_vars

\* the requests a work cycle may find buffered: up to two distinct ids
RequestBuffers ==
  {<<>>} \cup { <<a>> : a \in TaskIds } \cup
  { q \in { <<a, b>> : a \in TaskIds, b \in TaskIds } : q[1] # q[2] }

\* the document of a task that this instance runs under its lease
RunningDoc ==
  [status |-> "running", runAt |-> 0, retryAt |-> ClaimWindow, attempts |-> 0,
   ownerId |-> Facade, version |-> 2, interval |-> RecurringInterval,
   count |-> 0, params |-> <<"beforeSave", "pA">>]

\* a started facade as a work cycle finds it: requests are buffered, the
\* tasks are due, or t1 is running on one of the workers
ClaimInit ==
  /\ isStarted = TRUE
  /\ requests \in RequestBuffers
  /\ calls = [c \in Callers |-> UnusedCall]
  /\ published = <<>>
  /\ SchedInit /\ LifecycleInit
  /\ now = 0
  /\ seq = 3
  /\ created = [id \in TaskIds |-> 1]
  /\ \E busy \in BOOLEAN, doc \in { d \in StoredDocs : d.status = "idle" /\ d.attempts = 0 } :
       /\ store = [id \in TaskIds |->
                     IF busy /\ id = "t1" THEN RunningDoc ELSE doc]
       /\ pool = [k \in Instances |->
                    IF busy /\ k = Facade
                    THEN { [createTaskRunnerForTask("t1", RunningDoc)
                              EXCEPT !.stage = "running"] }
                    ELSE {}]

\* the work cycles of a started facade with the requests of one caller
ClaimNext ==
  \/ \E id \in TaskIds : RunNow("c1", id)
  \/ PollForWork
  \/ \E carry \in BOOLEAN : ClaimResolves(carry)
  \/ \E r \in pool[Facade] : MarkRunning(Facade, r)
  \/ \E r \in pool[Facade], result \in RunResults : RunnerFinish(Facade, r, result)
  \/ \E failing \in BOOLEAN :
       SettleClaimErr("c1", GetLifecycle(store, calls["c1"].taskId, failing))

SpecClaim == ClaimInit /\ [][ClaimNext]_vars

(***************************************************************************)
(* The managed configuration: maxWorkers and pollInterval under the        *)
(* store's errors.                                                         *)
(***************************************************************************)
Max(a, b) == IF a > b THEN a ELSE b

\* the errors the store raises on errors$: overload signals, and others
StoreErrors == {"overload", "other"}

\* maxWorkers after a window of overload, without the floor
DecayedUnfloored(workers) == workers \div DecayDivisor

\* maxWorkers after a window of overload: times d, floored at 1
Decayed(workers) == Max(1, workers \div DecayDivisor)

\* pollInterval after a window of overload: times 1/d, capped
Lengthened(interval) == Min(MaxPollInterval, interval * DecayDivisor)

\* the values after a clean window: one step back to the configured ones
Recovered(m) ==
  [m EXCEPT !.maxWorkers = Min(MaxWorkers, @ + RecoveryStep),
            !.pollInterval = Max(PollInterval, @ - RecoveryStep)]

\* the store raises an error on errors$
StoreError(error) ==
  /\ managed' = [managed EXCEPT
       !.errors = IF error = "overload" THEN Min(MaxWindowErrors, @ + 1) ELSE @,
       !.lastError = error]
  /\ UNCHANGED <<facadeVars, storeVars, sched, pool, plugin, cycle, logged,
                 pollerVars>>

\* an observation window ends
WindowCloses ==
  /\ managed' =
       IF managed.errors > 0
       THEN [managed EXCEPT !.maxWorkers = Decayed(@),
                            !.pollInterval = Lengthened(@),
                            !.errors = 0, !.lastError = "none"]
       ELSE [Recovered(managed) EXCEPT !.lastError = "none"]
  /\ UNCHANGED <<facadeVars, storeVars, sched, pool, plugin, cycle, logged,
                 pollerVars>>

ManagedNext ==
  \/ \E error \in StoreErrors : StoreError(error)
  \/ WindowCloses

\* the observation windows keep ending
SpecManaged == FacadeOnlyInit /\ [][ManagedNext]_vars /\ WF_vars(WindowCloses)

(***************************************************************************)
(* The plugin: setup's registrations, start and stop.                      *)
(***************************************************************************)
Middlewares == {"mA", "mB"}
TaskTypes == {"typeA", "typeB"}

\* assertStillInSetup(operation) returns: there is no polling lifecycle yet,
\* or the one there is says it is not started
StillInSetup(pl, started) == ~(pl.taskPollingLifecycle /\ started)

\* setup().addMiddleware(middleware)
AddMiddleware(m) ==
  /\ Len(plugin.middleware) < MaxMiddleware
  /\ plugin' = IF StillInSetup(plugin, isStarted)
               THEN [plugin EXCEPT !.middleware = Append(@, m), !.threw = FALSE]
               ELSE [plugin EXCEPT !.threw = TRUE]
  /\ UNCHANGED <<facadeVars, storeVars, sched, pool, cycle, logged, managed,
                 pollerVars>>

\* setup().registerTaskDefinitions(taskDefinition)
RegisterTaskDefinitions(type) ==
  /\ type \notin plugin.definitions
  /\ plugin' = IF StillInSetup(plugin, isStarted)
               THEN [plugin EXCEPT !.definitions = @ \cup {type}, !.threw = FALSE]
               ELSE [plugin EXCEPT !.threw = TRUE]
  /\ UNCHANGED <<facadeVars, storeVars, sched, pool, cycle, logged, managed,
                 pollerVars>>

\* plugin.start(): the polling lifecycle is built and started
PluginStart ==
  /\ ~plugin.taskPollingLifecycle
  /\ plugin' = [plugin EXCEPT !.taskPollingLifecycle = TRUE, !.threw = FALSE]
  /\ isStarted' = TRUE
  /\ UNCHANGED <<requests, calls, published, storeVars, sched, pool, cycle,
                 logged, managed, pollerVars>>

\* plugin.stop(): the polling lifecycle, if there is one, is stopped
PluginStop ==
  /\ plugin.taskPollingLifecycle
  /\ isStarted
  /\ isStarted' = FALSE
  /\ pool' = [pool EXCEPT ![Facade] = cancelRunningTasks(@)]
  /\ plugin' = [plugin EXCEPT !.threw = FALSE]
  /\ UNCHANGED <<requests, calls, published, storeVars, sched, cycle, logged,
                 managed, pollerVars>>

PluginNext ==
  \/ \E m \in Middlewares : AddMiddleware(m)
  \/ \E type \in TaskTypes : RegisterTaskDefinitions(type)
  \/ PluginStart
  \/ PluginStop

SpecPlugin == FacadeOnlyInit /\ [][PluginNext]_vars

(***************************************************************************)
(* start() and stop() as they are called: every call, whether or not the   *)
(* facade is started.                                                      *)
(***************************************************************************)
\* start() that subscribes to poller$ whatever isStarted says
StartSubscribesAlways(started) == TRUE

\* start() subscribes to poller$ only if (!this.isStarted)
StartSubscribes(started) == ~started

\* the isStarted getter: !this.pollingSubscription.closed
IsStartedOf(sub) == ~sub.closed

\* start(): pollingSubscription becomes the new subscription to poller$
TaskManagerStart ==
  /\ subscription' =
       IF StartSubscribes(IsStartedOf(subscription))
       THEN [closed |-> FALSE, subscribers |-> subscription.subscribers + 1,
             did |-> <<"start", "subscribe">>]
       ELSE [subscription EXCEPT !.did = <<"start">>]
  /\ isStarted' = IsStartedOf(subscription')
  /\ UNCHANGED <<requests, calls, published, storeVars, sched, pool, plugin,
                 cycle, logged, managed, poller>>

\* stop(): if started, pollingSubscription.unsubscribe() and then
\* pool.cancelRunningTasks()
TaskManagerStop ==
  /\ subscription' =
       IF IsStartedOf(subscription)
       THEN [closed |-> TRUE, subscribers |-> subscription.subscribers - 1,
             did |-> <<"stop", "unsubscribe", "cancelRunningTasks">>]
       ELSE [subscription EXCEPT !.did = <<"stop">>]
  /\ isStarted' = IsStartedOf(subscription')
  /\ pool' = IF IsStartedOf(subscription)
             THEN [pool EXCEPT ![Facade] = cancelRunningTasks(@)]
             ELSE pool
  /\ UNCHANGED <<requests, calls, published, storeVars, sched, plugin, cycle,
                 logged, managed, poller>>

\* start and stop are called in any order while work cycles claim tasks and
\* the pool runs them
StartStopNext ==
  \/ TaskManagerStart
  \/ TaskManagerStop
  \/ PollForWork
  \/ \E carry \in BOOLEAN : ClaimResolves(carry)
  \/ \E r \in pool[Facade] : MarkRunning(Facade, r)
  \/ \E r \in pool[Facade], result \in RunResults : RunnerFinish(Facade, r, result)

SpecStartStop == PoolSpecInit /\ [][StartStopNext]_vars

(***************************************************************************)
(* The poller and its monitor in time.  The clock counts in units of the   *)
(* configured poll_interval's resolution; the poller's timer runs on the   *)
(* managed poll interval, the two timeouts on the configured one.          *)
(***************************************************************************)
\* workTimeout: pollInterval * maxPollInactivityCycles
workTimeout == PollInterval * MaxPollInactivityCycles

\* inactivityTimeout: pollInterval * (maxPollInactivityCycles + 1)
inactivityTimeout == PollInterval * (MaxPollInactivityCycles + 1)

\* getCapacity: () => this.pool.availableWorkers
getCapacity == availableWorkers(pool[Facade])

\* the poller emits something: the monitor's watch starts again and the
\* work call, if there was one, is over
Emitted(p, what) ==
  [p EXCEPT !.since = 0, !.work = FALSE, !.elapsed = 0, !.last = what]

\* a poller that starts a work cycle for buffered requests whatever the
\* capacity
EmitsWhenBuffered(byTimer) ==
  IF byTimer THEN poller.timer >= managed.pollInterval ELSE requests # <<>>

\* the poller starts a work cycle when its timer has elapsed, or when
\* requests are buffered and there is capacity
EmitsWhen(byTimer) ==
  IF byTimer
  THEN poller.timer >= managed.pollInterval
  ELSE requests # <<>> /\ getCapacity > 0

\* one unit of time passes: not past the end of a work call's time, which
\* the poller's timeout marks, not past the monitor's patience by more than
\* the unit that shows it is over, and not past the timer while the poller
\* is free to start its cycle
TimePasses ==
  /\ isStarted
  /\ poller.work => poller.elapsed < workTimeout
  /\ poller.since <= inactivityTimeout
  /\ poller.work \/ cycle.stage # "idle" \/ poller.timer < managed.pollInterval
  /\ poller' = [poller EXCEPT
       !.timer = Min(MaxPollInterval, @ + 1),
       !.since = @ + 1,
       !.elapsed = IF poller.work THEN @ + 1 ELSE 0]
  /\ UNCHANGED <<facadeVars, storeVars, sched, pool, plugin, cycle, logged,
                 managed, subscription>>

\* the poller starts a work cycle: it calls work (pollForWork) with the
\* requests it drained; a cycle that is skipped for want of capacity has
\* returned at once
PollerEmits(byTimer) ==
  /\ ~poller.work
  /\ EmitsWhen(byTimer)
  /\ PollForWorkCall
  /\ LET begun == [poller EXCEPT !.timer = IF byTimer THEN 0 ELSE @,
                                 !.by = IF byTimer THEN "timer" ELSE "request",
                                 !.delivered = requests]
     IN poller' = IF cycle'.stage = "idle"
                  THEN Emitted(begun, "result")
                  ELSE [begun EXCEPT !.work = TRUE, !.elapsed = 0]

\* the work call returns within its time and the poller emits its result
WorkCompletes(carry) ==
  /\ ClaimResolved(carry)
  /\ poller' = IF poller.work THEN Emitted(poller, "result") ELSE poller

\* the work call fails within its time and the poller emits the error, or
\* the empty result when claimAvailableTasks swallowed it
WorkFails(error) ==
  /\ ClaimRejected(error)
  /\ poller' = IF poller.work
               THEN Emitted(poller, IF ClaimFailure(error).thrown
                                    THEN "WorkError" ELSE "result")
               ELSE poller

\* the work call has used up workTimeout: the poller reports a timeout,
\* which start()'s subscriber logs, and waits for the call no longer; the
\* call is one that hangs for good
WorkTimesOut ==
  /\ isStarted
  /\ poller.work
  /\ poller.elapsed >= workTimeout
  /\ poller' = Emitted(poller, "WorkTimeout")
  /\ cycle' = NoCycle
  /\ calls' = EmitAll(calls, OnPollingError(asPollingError("WorkTimeout", NoTask)))
  /\ published' = OnPollingError(asPollingError("WorkTimeout", NoTask))
  /\ logged' = logged \cup {"error"}
  /\ UNCHANGED <<isStarted, requests, storeVars, sched, pool, plugin, managed,
                 subscription>>

\* the monitor has seen no emission for longer than inactivityTimeout: it
\* tears the poller down and makes a new one, whose buffer is empty
MonitorRecreates ==
  /\ isStarted
  /\ poller.since > inactivityTimeout
  /\ poller' = [NewPoller EXCEPT !.last = "recreated"]
  /\ requests' = <<>>
  /\ published' = <<>>
  /\ UNCHANGED <<isStarted, calls, storeVars, sched, pool, plugin, cycle,
                 logged, managed, subscription>>

\* a started facade in time: the store's overload lengthens the managed
\* poll interval, claims are answered sooner or later or not at all
PollerNext ==
  \/ Start
  \/ TimePasses
  \/ PollerEmits(TRUE)
  \/ \E carry \in BOOLEAN : WorkCompletes(carry)
  \/ \E error \in ClaimErrors : WorkFails(error)
  \/ WorkTimesOut
  \/ MonitorRecreates
  \/ StoreError("overload")
  \/ WindowCloses
  \/ \E r \in pool[Facade] : MarkRunning(Facade, r)

SpecPoller == PoolSpecInit /\ [][PollerNext]_vars

\* a started facade in time, with the callers of runNow: the poller's timer
\* runs on the configured interval
RequestsNext ==
  \/ Start
  \/ \E c \in Callers, id \in TaskIds : RunNow(c, id)
  \/ TimePasses
  \/ \E byTimer \in BOOLEAN : PollerEmits(byTimer)
  \/ \E carry \in BOOLEAN : WorkCompletes(carry)
  \/ \E r \in pool[Facade] : MarkRunning(Facade, r)

SpecRequests == PoolSpecInit /\ [][RequestsNext]_vars

(***************************************************************************)
(* Properties of the run-now synchronizer.                                 *)
(***************************************************************************)
Contains(buffer, id) == \E i \in 1..Len(buffer) : buffer[i] = id

Terminal(call) == call.phase \in {"lifecycle", "resolved", "rejected"}

\* C2: a runNow promise is settled at most once; the first terminal event
\* for its task decides it and removes the subscription, and no later event
\* (a Run(Ok) after a Claim(Err) included) changes it: after a Claim(Err)
\* the only change left is the rejection itself.
C2_SettledAtMostOnce ==
  [][\A c \in Callers :
       /\ calls'[c].settles <= 1
       /\ Terminal(calls[c]) =>
            /\ ~calls'[c].subscribed
            /\ calls'[c].by = calls[c].by
            /\ calls[c].phase # "lifecycle" => calls'[c] = calls[c]
            /\ calls[c].phase = "lifecycle" =>
                 \/ calls'[c] = calls[c]
                 \/ calls'[c].phase = "rejected" /\ published' = <<>>]_vars

\* a Run(Ok) for the task was published after its Claim(Err) decided the call
C2_Witness ==
  \E c \in Callers :
    /\ calls[c].by = "Claim.err"
    /\ calls[c].phase = "rejected"
    /\ published = <<asEvent("Run", calls[c].taskId, "ok", NoTask)>>

SettlingEventsClaimed(id) ==
  { asEvent("Run", id, "ok", NoTask) } \cup
  { e \in Events : e.id = id /\ e.tag = "err"
                     /\ e.kind \in {"Claim", "RunRequest", "Run"} }

SettlingEvents(id) ==
  { asEvent("Run", id, "ok", NoTask) } \cup
  { e \in Events : e.id = id /\ e.tag = "err" }

\* C4 as stated: a pending promise changes only on Run(Ok) or on an Err of
\* Claim, RunRequest or Run for its task; MarkRunning events leave it pending.
C4_OnlyClaimRunRequestRunSettle ==
  [][\A c \in Callers :
       calls[c].phase = "pending" /\ calls'[c] # calls[c] =>
         \E e \in SettlingEventsClaimed(calls[c].taskId) : published' = <<e>>]_vars

\* C4 amended: a pending promise changes only on Run(Ok) or on an Err of
\* Claim, MarkRunning, RunRequest or Run for its task; Claim(Ok),
\* MarkRunning(Ok) and RunRequest(Ok) leave it pending and subscribed.
C4_OnlyTerminalEventsSettle ==
  [][\A c \in Callers :
       calls[c].phase = "pending" /\ calls'[c] # calls[c] =>
         \E e \in SettlingEvents(calls[c].taskId) : published' = <<e>>]_vars

\* a MarkRunning(Ok) for the task of a pending promise left it pending
C4_Witness ==
  \E c \in Callers :
    /\ calls[c].phase = "pending"
    /\ calls[c].subscribed
    /\ published = <<asEvent("MarkRunning", calls[c].taskId, "ok", NoTask)>>

\* C5: when runNow returns on a started facade the caller either has its
\* request in the poller's buffer and is subscribed, or has already seen the
\* refusal of the request; an event for another task changes no promise.
C5_SubscribedBeforeEnqueue ==
  [][\A c \in Callers :
       /\ isStarted /\ calls[c].phase = "unused" /\ calls'[c].phase # "unused" =>
            \/ /\ calls'[c].phase = "pending"
               /\ calls'[c].subscribed
               /\ Contains(requests', calls'[c].taskId)
               /\ Len(requests') = Len(requests) + 1
            \/ /\ calls'[c].phase = "rejected"
               /\ calls'[c].by = "RunRequest.err"
       /\ calls[c].phase # "unused" /\ calls'[c] # calls[c] =>
            \/ published' = <<>>
            \/ \E e \in Events : e.id = calls[c].taskId /\ published' = <<e>>]_vars

\* a caller saw the refusal that its own request caused
C5_Witness ==
  \E c \in Callers :
    /\ calls[c].phase = "rejected"
    /\ calls[c].by = "RunRequest.err"
    /\ published = <<asTaskRunRequestEvent(calls[c].taskId, "err")>>

\* C8: a request that arrives while the buffer is full is answered by a
\* RunRequest(Err) for exactly its id, its promise rejects with the
\* at-capacity error, the buffer keeps its requests and the promises for
\* other ids do not change.
C8_CapacityReached ==
  [][\A c \in Callers :
       isStarted /\ BufferFull(requests)
       /\ calls[c].phase = "unused" /\ calls'[c].phase # "unused" =>
         /\ published' = <<asTaskRunRequestEvent(calls'[c].taskId, "err")>>
         /\ calls'[c].phase = "rejected"
         /\ calls'[c].result = "atCapacity"
         /\ ~calls'[c].subscribed
         /\ requests' = requests
         /\ \A d \in Callers :
              calls[d].taskId # calls'[c].taskId /\ d # c =>
                calls'[d] = calls[d]]_vars

\* one promise was refused at capacity while the buffered request of
\* another id and its promise stayed as they were
C8_Witness ==
  \E c, d \in Callers :
    /\ calls[c].result = "atCapacity"
    /\ calls[d].phase = "pending"
    /\ calls[d].taskId # calls[c].taskId
    /\ Contains(requests, calls[d].taskId)
    /\ BufferFull(requests)

(***************************************************************************)
(* Properties of schedule and ensureScheduled.                             *)
(***************************************************************************)
Finished(call) == call.pc \in {"returned", "thrown"}

Supplied(call) == [id |-> call.task.id, params |-> call.task.params]

\* C9: an ensureScheduled call whose schedule ended in a version conflict
\* (409) returns the task instance it was given and leaves the store as it
\* was; one whose schedule ended in any other error throws that error.
C9_ConflictIsSuccess ==
  [][\A s \in ScheduleCallers :
       sched[s].op = "ensureScheduled" /\ ~Finished(sched[s])
       /\ Finished(sched'[s]) =>
         /\ sched'[s].answer = VERSION_CONFLICT_STATUS =>
              /\ sched'[s].pc = "returned"
              /\ sched'[s].returned = Supplied(sched[s])
              /\ Exists(store, sched[s].task.id)
              /\ store' = store
         /\ sched'[s].answer \notin {VERSION_CONFLICT_STATUS, STORE_OK_STATUS} =>
              /\ sched'[s].pc = "thrown"
              /\ sched'[s].error = sched'[s].answer
              /\ store' = store]_vars

\* an ensureScheduled call returned its own instance for a document that
\* another call had created with other params
C9_Witness ==
  \E s \in ScheduleCallers :
    /\ sched[s].op = "ensureScheduled"
    /\ sched[s].pc = "returned"
    /\ sched[s].answer = VERSION_CONFLICT_STATUS
    /\ store[sched[s].task.id].params # BeforeSaveTask(sched[s].task).params

\* C10: when two ensureScheduled calls with the same id have both ended
\* and the store answered each of them (created or conflict), both returned
\* a document with that id and the store created exactly one document.
C10_ConcurrentEnsureScheduled ==
  \A s, u \in ScheduleCallers :
    ( /\ s # u
      /\ sched[s].op = "ensureScheduled" /\ sched[u].op = "ensureScheduled"
      /\ Finished(sched[s]) /\ Finished(sched[u])
      /\ sched[s].task.id = sched[u].task.id
      /\ sched[s].answer \in {VERSION_CONFLICT_STATUS, STORE_OK_STATUS}
      /\ sched[u].answer \in {VERSION_CONFLICT_STATUS, STORE_OK_STATUS} ) =>
    /\ sched[s].pc = "returned" /\ sched[u].pc = "returned"
    /\ sched[s].returned.id = sched[s].task.id
    /\ sched[u].returned.id = sched[s].task.id
    /\ created[sched[s].task.id] = 1
    /\ Exists(store, sched[s].task.id)

\* two ensureScheduled calls with one id both returned, one of them on a
\* conflict
C10_Witness ==
  /\ sched["s1"].op = "ensureScheduled" /\ sched["s2"].op = "ensureScheduled"
  /\ sched["s1"].pc = "returned" /\ sched["s2"].pc = "returned"
  /\ sched["s1"].task.id = sched["s2"].task.id
  /\ sched["s1"].answer = STORE_OK_STATUS
  /\ sched["s2"].answer = VERSION_CONFLICT_STATUS

(***************************************************************************)
(* Properties of runNow on the running system.                             *)
(***************************************************************************)
RunnersOf(k, id) == { r \in pool[k] : r.id = id }

\* the work cycle of this step asks the store to claim id
ClaimRequested(id) ==
  /\ isStarted
  /\ requests # <<>> /\ requests' = <<>>
  /\ availableWorkers(pool[Facade]) > 0
  /\ id \in ClaimTasksById(requests, pool[Facade])

\* C3: a pending runNow promise resolves, with the id of its task, exactly
\* in the step that publishes Run(Ok) for the task; RunRequest(Err) and
\* Run(Err) reject it, Claim(Err) leaves it nothing but the rejection.  A
\* failed run that rejects it and whose outcome is persisted for a task
\* with no failed attempt leaves attempts = 1 and the state as it was.
C3_RunNowOutcome ==
  [][\A c \in Callers :
       LET id == calls[c].taskId
           seen(kind, tag) ==
             \E i \in 1..Len(published') :
               /\ published'[i].kind = kind /\ published'[i].id = id
               /\ published'[i].tag = tag
       IN /\ calls[c].phase = "pending" /\ calls'[c] # calls[c] =>
               /\ calls'[c].phase = "resolved" <=> seen("Run", "ok")
               /\ calls'[c].phase = "resolved" => calls'[c].result = id
               /\ seen("RunRequest", "err") =>
                    calls'[c].phase = "rejected" /\ calls'[c].result = "atCapacity"
               /\ seen("Run", "err") =>
                    calls'[c].phase = "rejected" /\ calls'[c].result = "failed"
               /\ seen("Claim", "err") => calls'[c].phase = "lifecycle"
               /\ ( /\ seen("Run", "err")
                    /\ store'[id] # store[id]
                    /\ store[id].attempts = 0 ) =>
                    /\ store'[id].attempts = 1
                    /\ store'[id].count = store[id].count
                    /\ store'[id].status = "idle"
          /\ calls[c].phase = "lifecycle" /\ calls'[c] # calls[c] =>
               calls'[c].phase = "rejected"]_vars

\* a run failed under runNow: the promise is rejected, the task has one
\* failed attempt
C3_Witness ==
  \E c \in Callers :
    /\ calls[c].phase = "rejected"
    /\ calls[c].by = "Run.err"
    /\ published = <<asEvent("Run", calls[c].taskId, "err", NoTask)>>
    /\ Exists(store, calls[c].taskId)
    /\ store[calls[c].taskId].attempts = 1
    /\ store[calls[c].taskId].status = "idle"

C7_DoesNotExist ==
  [][\A c \in Callers :
       LET id == calls[c].taskId
       IN /\ ( /\ calls[c].phase = "pending"
               /\ ClaimRequested(id)
               /\ ~Exists(store, id) ) =>
               /\ calls'[c].phase = "lifecycle"
               /\ calls'[c].carried = NoTask
               /\ ~calls'[c].subscribed
               /\ RunnersOf(Facade, id)' = RunnersOf(Facade, id)
               /\ ~Exists(store', id)
          /\ ( /\ calls[c].phase = "lifecycle" /\ calls'[c] # calls[c]
               /\ calls[c].carried = NoTask
               /\ ~Exists(store, id)
               /\ calls'[c].result # "lifecycleFailed" ) =>
               /\ calls'[c].phase = "rejected"
               /\ calls'[c].result = "notExist"]_vars

\* runNow on the id that was never scheduled was rejected: does not exist
C7_Witness ==
  \E c \in Callers :
    /\ calls[c].taskId = "t2"
    /\ calls[c].phase = "rejected"
    /\ calls[c].result = "notExist"
    /\ calls[c].by = "Claim.err"

(***************************************************************************)
(* Properties of the leases.                                               *)
(***************************************************************************)
\* instance k holds a valid lease on id: one of its runners has the current
\* version of a claimed or running document whose retryAt is ahead
HoldsLease(k, id) ==
  /\ Exists(store, id)
  /\ LeaseHeld(store[id], now)
  /\ \E r \in RunnersOf(k, id) : r.version = store[id].version

LeaseMutualExclusion ==
  \A id \in TaskIds : \A k, j \in Instances :
    HoldsLease(k, id) /\ HoldsLease(j, id) => k = j

\* the runners of the instances whose version of id is stale
StaleRunners(id) ==
  { r \in UNION { RunnersOf(k, id) : k \in Instances } : VersionConflict(store, r) }

\* C1: no two instances hold a valid lease on one task, and a step in which
\* only runners with a stale version of a task act on it leaves the task's
\* document as it was.
C1_LeaseMutualExclusion ==
  [][/\ LeaseMutualExclusion'
     /\ \A id \in TaskIds :
          ( /\ Exists(store, id)
            /\ \E k \in Instances :
                 /\ RunnersOf(k, id)' # RunnersOf(k, id)
                 /\ RunnersOf(k, id) \ RunnersOf(k, id)' \subseteq StaleRunners(id)
                 /\ RunnersOf(k, id) \ RunnersOf(k, id)' # {}
                 /\ RunnersOf(k, id)' \subseteq RunnersOf(k, id) ) =>
          store'[id] = store[id]]_vars

(***************************************************************************)
(* Properties of the runner's outcome.                                     *)
(***************************************************************************)
\* runner r of instance k ends its run in this step
Finishes(k, r) ==
  /\ r \in pool[k] /\ r.stage = "running"
  /\ pool'[k] = pool[k] \ {r}
  /\ \A j \in Instances \ {k} : pool'[j] = pool[j]

\* the lease under which r was claimed is over: the task was reclaimed, or
\* its retryAt has passed
LeaseOver(r) ==
  \/ VersionConflict(store, r)
  \/ store[r.id].retryAt <= now

\* C11: a runner that ends its run when its lease is over leaves the
\* document of its task as it was.
C11_ExpiredLeaseNeverPersists ==
  [][\A k \in Instances : \A r \in pool[k] :
       Finishes(k, r) /\ LeaseOver(r) => store'[r.id] = store[r.id]]_vars

\* the document of id is claimed in this step
Claimed(id) ==
  /\ Exists(store', id)
  /\ store'[id].status = "claiming"
  /\ store'[id] # store[id]

\* C12: a work cycle without explicit requests claims a task only if its
\* status is idle, claiming or running, its runAt is not ahead, and it is
\* idle or its retryAt has passed; a task under an unexpired lease and a
\* failed task are left as they are.
C12_ClaimEligibility ==
  [][\A id \in TaskIds :
       /\ Claimed(id) =>
            /\ requests = <<>>
            /\ Exists(store, id)
            /\ store[id].status \in {"idle", "claiming", "running"}
            /\ store[id].runAt <= now
            /\ store[id].status = "idle" \/ store[id].retryAt <= now
       /\ ( /\ Exists(store, id)
            /\ LeaseHeld(store[id], now) \/ store[id].status = "failed" ) =>
            ~Claimed(id)]_vars

\* a task whose lease ran out was reclaimed by the other instance
C12_Witness ==
  \E k, j \in Instances : \E r \in pool[k] :
    /\ k # j
    /\ Exists(store, r.id)
    /\ store[r.id].status = "claiming"
    /\ store[r.id].ownerId = j
    /\ store[r.id].retryAt > now
    /\ VersionConflict(store, r)

\* the work cycle of this step drains the requests, id first among them,
\* with a worker free
RequestedFirst(id) ==
  /\ isStarted
  /\ requests # <<>> /\ requests' = <<>>
  /\ requests[1] = id
  /\ availableWorkers(pool[Facade]) > 0

\* C13: a work cycle that is asked for a failed task claims it and hands
\* it to a runner, the promise staying pending; the Run(Ok) of a run of
\* the task resolves the promise with the id.
C13_FailedTaskRerun ==
  [][\A c \in Callers :
       LET id == calls[c].taskId
       IN /\ ( /\ calls[c].phase = "pending"
               /\ RequestedFirst(id)
               /\ Exists(store, id) /\ store[id].status = "failed" ) =>
               /\ Claimed(id)
               /\ store'[id].ownerId = Facade
               /\ \E r \in RunnersOf(Facade, id)' :
                    r.version = store'[id].version /\ r.stage = "claimed"
               /\ calls'[c] = calls[c]
          /\ ( /\ calls[c].phase = "pending"
               /\ \E r \in RunnersOf(Facade, id) : Finishes(Facade, r)
               /\ published' = <<asEvent("Run", id, "ok", NoTask)>> ) =>
               /\ calls'[c].phase = "resolved"
               /\ calls'[c].result = id]_vars

\* the failed task was run through runNow, the run succeeded and removed
\* it, and the promise resolved
C13_Witness ==
  \E c \in Callers :
    /\ calls[c].taskId = "t1"
    /\ calls[c].phase = "resolved"
    /\ calls[c].result = "t1"
    /\ ~Exists(store, "t1")
    /\ created["t1"] = 1

\* the runners of id in the pools of all instances
AllRunners(id) == UNION { RunnersOf(k, id) : k \in Instances }

C15_ReturnedRunAtKeepsTask ==
  [][\A k \in Instances : \A r \in pool[k] :
       ( /\ RunnerFinish(k, r, "okRunAt")
         /\ r.interval = 0
         /\ ~VersionConflict(store, r) ) =>
         /\ Exists(store', r.id)
         /\ store'[r.id].status = "idle"
         /\ store'[r.id].runAt = now + ReturnedDelay
         /\ store'[r.id].attempts = 0
         /\ store'[r.id].count = store[r.id].count + 1
         /\ store'[r.id].ownerId = NoOwner
         /\ store'[r.id].interval = 0]_vars

\* a task without an interval has run once and is in the store, due at the
\* runAt its executor returned
C15_Witness ==
  /\ Exists(store, "t1")
  /\ store["t1"].interval = 0
  /\ store["t1"].status = "idle"
  /\ store["t1"].count = 1
  /\ store["t1"].attempts = 0
  /\ store["t1"].runAt = now + ReturnedDelay

\* the run of a recurring task ends in success with no runAt returned, and
\* the runner's write is accepted
RecurringSuccess(k, r) ==
  /\ RunnerFinish(k, r, "ok")
  /\ r.interval > 0
  /\ ~VersionConflict(store, r)

\* the document of a recurring task after a successful run
RescheduledIdle(r) ==
  /\ Exists(store', r.id)
  /\ store'[r.id].status = "idle"
  /\ store'[r.id].attempts = 0
  /\ store'[r.id].count = store[r.id].count + 1
  /\ store'[r.id].ownerId = NoOwner

PersistedFailure(k, r) ==
  /\ RunnerFinish(k, r, "fail")
  /\ ~VersionConflict(store, r)

\* C17: when a run fails and the attempts, this one counted, are below
\* MaxAttempts, the task is written back idle with one attempt more, due
\* no sooner than RetryDelay after the failure, its state as it was.
C17_FailureReschedules ==
  [][\A k \in Instances : \A r \in pool[k] :
       PersistedFailure(k, r) /\ store[r.id].attempts + 1 < MaxAttempts =>
         /\ Exists(store', r.id)
         /\ store'[r.id].status = "idle"
         /\ store'[r.id].attempts = store[r.id].attempts + 1
         /\ store'[r.id].runAt >= now + RetryDelay
         /\ store'[r.id].count = store[r.id].count]_vars

\* a task has failed once and waits for its retry
C17_Witness ==
  /\ Exists(store, "t1")
  /\ store["t1"].status = "idle"
  /\ store["t1"].attempts = 1
  /\ store["t1"].count = 0
  /\ store["t1"].runAt = now + RetryDelay
  /\ store["t1"].version > 1

SuccessfulRun(id) ==
  \E k \in Instances : \E r \in RunnersOf(k, id) :
    RunnerFinish(k, r, "ok") \/ RunnerFinish(k, r, "okRunAt")

\* C19: the attempts of a task are never negative, and from one version of
\* its document to the next they do not decrease unless the step is the end
\* of a successful run, which sets them to 0.
C19_AttemptsMonotonic ==
  [][\A id \in TaskIds :
       /\ Exists(store', id) => store'[id].attempts >= 0
       /\ ( /\ Exists(store, id) /\ Exists(store', id)
            /\ store'[id].attempts < store[id].attempts ) =>
            SuccessfulRun(id) /\ store'[id].attempts = 0]_vars

(***************************************************************************)
(* Properties of the pool.                                                 *)
(***************************************************************************)
\* the tasks claimed in this step whose runner the pool of k did not take
Dropped(k) ==
  { id \in TaskIds :
      Claimed(id) /\ ~\E r \in pool'[k] : r.id = id /\ r.version = store'[id].version }

\* C20: a pool never holds more than MaxWorkers runners, availableWorkers
\* is MaxWorkers less the runners it holds, run takes no more runners than
\* workers are free, and the task of a runner it does not take stays
\* claiming in the store, untouched as long as its lease is held and no
\* earlier runner of the task is left.
C20_PoolCapacity ==
  [][\A k \in Instances :
       /\ Cardinality(pool'[k]) <= MaxWorkers
       /\ availableWorkers(pool'[k]) = MaxWorkers - Cardinality(pool'[k])
       /\ availableWorkers(pool'[k]) >= 0
       /\ Cardinality(pool'[k] \ pool[k]) <=
            (IF availableWorkers(pool[k]) > 0 THEN availableWorkers(pool[k]) ELSE 0)
          \/ \E r \in pool[k] : MarkRunning(k, r)
       /\ \A id \in Dropped(k) :
            /\ store'[id].status = "claiming"
            /\ store'[id].retryAt = now + ClaimWindow
       /\ \A id \in TaskIds :
            ( /\ Exists(store, id)
              /\ store[id].status = "claiming"
              /\ LeaseHeld(store[id], now)
              /\ AllRunners(id) = {} ) =>
              /\ store'[id] = store[id]
              /\ AllRunners(id)' = {}]_vars

\* the pool is full and a task that was claimed has no runner: it is
\* claiming in the store under its lease
C20_Witness ==
  /\ Cardinality(pool[Facade]) = MaxWorkers
  /\ \E id \in TaskIds :
       /\ Exists(store, id)
       /\ store[id].status = "claiming"
       /\ LeaseHeld(store[id], now)
       /\ AllRunners(id) = {}

(***************************************************************************)
(* Properties of the work cycle under load.                                *)
(***************************************************************************)
\* the task of id is due for a work cycle without explicit requests
Due(id) == EligibleBySchedule(store[id], now)

\* every worker of the facade's pool is busy
Saturated == Cardinality(pool[Facade]) >= MaxWorkers

\* the pool holds a runner for the claim the document of id shows
ClaimedAfresh(id) ==
  /\ Exists(store, id)
  /\ store[id].status = "claiming"
  /\ \E r \in pool[Facade] :
       r.id = id /\ r.stage = "claimed" /\ r.version = store[id].version

\* the store hands out no further revision
RevisionsSpent == seq > MaxSeq

Registers ==
  \/ \E m \in Middlewares : AddMiddleware(m)
  \/ \E type \in TaskTypes : RegisterTaskDefinitions(type)

\* C22: once the plugin has been started, every call of
\* registerTaskDefinitions or addMiddleware throws and registers nothing,
\* after stop as well; before start both calls succeed.
C22_RegistrationLockedAfterStart ==
  [][Registers =>
       IF plugin.taskPollingLifecycle
       THEN /\ plugin'.threw
            /\ plugin'.definitions = plugin.definitions
            /\ plugin'.middleware = plugin.middleware
       ELSE ~plugin'.threw]_vars

\* C23: runNow called on a facade that is not started throws: its promise
\* is rejected at once, it is not left pending on a request that no poller
\* takes.
C23_ThrowsBeforeStart ==
  [][\A c \in Callers, id \in TaskIds :
       (RunNow(c, id) /\ ~isStarted) =>
         /\ calls'[c].phase = "rejected"
         /\ ~calls'[c].subscribed]_vars

(***************************************************************************)
(* Properties of the work cycle in steps.                                  *)
(***************************************************************************)
\* C24: while the facade is stopped no task is claimed for it and its pool
\* is handed no runner, whether or not a work cycle was in flight when it
\* was stopped; and every runner its pool holds has been signalled to
\* cancel.
C24_NothingNewAfterStop ==
  /\ [][(~isStarted /\ ~isStarted') =>
         /\ \A id \in TaskIds : ~Claimed(id)
         /\ Cardinality(pool'[Facade]) <= Cardinality(pool[Facade])]_vars
  /\ [](~isStarted => \A r \in pool[Facade] : r.cancelled)

(***************************************************************************)
(* Properties of the event stream.                                         *)
(***************************************************************************)
\* this step puts the event on events$
Publishes(kind, id, tag) ==
  \E i \in 1..Len(published') : published'[i] = asEvent(kind, id, tag, NoTask)

\* this step publishes, and among its events is one of this kind for id
PublishesKind(kind, id) ==
  /\ published' # published
  /\ \E i \in 1..Len(published') :
       published'[i].kind = kind /\ published'[i].id = id

\* C25: the events of one claim come in the order Claim, MarkRunning, Run.
\* A runner enters the pool in the step that publishes Claim(Ok) for its
\* task; MarkRunning is published for a task only by a runner that was
\* claimed before and is not marked yet, and the runner counts as running
\* only from the step that publishes MarkRunning(Ok); Run is published
\* only by a runner that was marked running before.
C25_EventOrder ==
  [][/\ \A r \in pool'[Facade] \ pool[Facade] :
          /\ r.stage = "claimed" => Publishes("Claim", r.id, "ok")
          /\ r.stage = "running" =>
               /\ Publishes("MarkRunning", r.id, "ok")
               /\ ~PublishesKind("Claim", r.id)
               /\ \E q \in pool[Facade] : q.id = r.id /\ q.stage = "claimed"
     /\ \A id \in TaskIds :
          /\ PublishesKind("MarkRunning", id) =>
               /\ \E q \in pool[Facade] : q.id = id /\ q.stage = "claimed"
               /\ ~PublishesKind("Claim", id)
               /\ ~PublishesKind("Run", id)
          /\ PublishesKind("Run", id) =>
               /\ \E q \in pool[Facade] : q.id = id /\ q.stage = "running"
               /\ ~PublishesKind("Claim", id)]_vars

\* the Run event of a task has just been published, after its Claim and
\* its MarkRunning
C25_Witness ==
  /\ Len(published) = 1
  /\ published[1] = asEvent("Run", "t1", "ok", NoTask)
  /\ \E r \in pool[Facade] : r.id = "t2" /\ r.stage = "running"

(***************************************************************************)
(* Properties of runNow against the runs of the task.                      *)
(***************************************************************************)
\* the promises this step resolves
ResolvedNow ==
  { c \in Callers : calls[c].phase = "pending" /\ calls'[c].phase = "resolved" }

\* C26: every runNow promise that resolves has a successful run of its own:
\* one step resolves no more than one promise, the request of the promise
\* has been taken by a work cycle before, and the run that resolves it has
\* put the state's count up by one (or, for a task that does not recur,
\* removed the task).
C26_OneRunPerResolution ==
  [][/\ Cardinality(ResolvedNow) <= 1
     /\ \A c \in ResolvedNow :
          LET id == calls[c].taskId
          IN /\ ~Contains(requests, id)
             /\ \/ ~Exists(store', id)
                \/ Exists(store, id) /\ store'[id].count = store[id].count + 1]_vars

(***************************************************************************)
(* Properties of the managed configuration.                                *)
(***************************************************************************)
AtConfiguredValues ==
  managed.maxWorkers = MaxWorkers /\ managed.pollInterval = PollInterval

\* C27: the managed maxWorkers stays between 1 and the configured
\* maxWorkers and the managed pollInterval between the configured
\* pollInterval and its maximum; a window of overload moves maxWorkers
\* down or leaves it, and pollInterval up or leaves it; an error that is no
\* overload signal changes neither, nor the count of the window; a clean
\* window moves neither away from the configured values; and when the
\* overload errors come to an end, both values return to the configured
\* ones and stay there.
C27_ManagedBounds ==
  /\ [](/\ 1 <= managed.maxWorkers /\ managed.maxWorkers <= MaxWorkers
        /\ PollInterval <= managed.pollInterval
        /\ managed.pollInterval <= MaxPollInterval)
  /\ [][/\ (WindowCloses /\ managed.errors > 0) =>
            /\ managed'.maxWorkers <= managed.maxWorkers
            /\ managed'.pollInterval >= managed.pollInterval
            /\ managed.maxWorkers > 1 => managed'.maxWorkers < managed.maxWorkers
            /\ managed.pollInterval < MaxPollInterval =>
                 managed'.pollInterval > managed.pollInterval
        /\ (WindowCloses /\ managed.errors = 0) =>
            /\ managed'.maxWorkers >= managed.maxWorkers
            /\ managed'.pollInterval <= managed.pollInterval
        /\ StoreError("other") =>
            /\ managed'.maxWorkers = managed.maxWorkers
            /\ managed'.pollInterval = managed.pollInterval
            /\ managed'.errors = managed.errors
        /\ StoreError("overload") =>
            /\ managed'.maxWorkers = managed.maxWorkers
            /\ managed'.pollInterval = managed.pollInterval]_vars
  /\ (<>[][~StoreError("overload")]_vars) => <>[]AtConfiguredValues

\* sustained overload has brought maxWorkers to its floor and pollInterval
\* to its maximum
C27_Witness ==
  /\ managed.maxWorkers = 1
  /\ managed.pollInterval = MaxPollInterval
  /\ managed.errors = 0

(***************************************************************************)
(* Properties of the claim a work cycle makes.                             *)
(***************************************************************************)
\* C28: a work cycle that finds workers free sends one claim whose size is
\* the number of free workers and whose requested ids are the first of the
\* buffered requests, no more than that number; a work cycle that finds no
\* worker free sends no claim and leaves store and pool as they are; and
\* the pool takes the runner of every task the claim comes back with.
C28_ClaimSize ==
  [][/\ PollForWork =>
          LET free == MaxWorkers - Cardinality(pool[Facade])
          IN /\ free > 0 =>
                  /\ cycle'.stage = "claiming"
                  /\ cycle'.size = free
                  /\ Cardinality(cycle'.claimTasksById) <= free
                  /\ cycle'.claimTasksById \subseteq Range(requests)
                  /\ Len(requests) <= free =>
                       cycle'.claimTasksById = Range(requests)
             /\ free <= 0 => cycle' = NoCycle /\ "debug" \in logged'
             /\ store' = store /\ pool' = pool
     /\ (\E carry \in BOOLEAN : ClaimResolves(carry)) =>
          /\ Cardinality({ id \in TaskIds : Claimed(id) }) <= cycle.size
          /\ cycle.size <= MaxWorkers - Cardinality(pool[Facade])
          /\ Dropped(Facade) = {}
          /\ Cardinality(pool'[Facade]) <= MaxWorkers]_vars

\* a work cycle found one worker free and two requests buffered: its claim
\* asked for the first of them, and brought its task to the free worker
C28_Witness ==
  /\ Cardinality(pool[Facade]) = MaxWorkers
  /\ cycle = NoCycle
  /\ requests = <<>>
  /\ published = <<asEvent("Claim", "t2", "ok", NoTask)>>
  /\ \E r \in pool[Facade] : r.id = "t1" /\ r.stage = "running"
  /\ \E r \in pool[Facade] : r.id = "t2" /\ r.stage = "claimed"

(***************************************************************************)
(* Properties of a claim that fails.                                       *)
(***************************************************************************)
\* this step takes no task and starts no runner
NothingClaimed == store' = store /\ pool' = pool /\ seq' = seq

\* C29: when the claim fails because inline scripts are disabled, a warning
\* is logged and nothing else, the cycle ends with no task and nothing is
\* thrown to the poller; when it fails otherwise, the error reaches the
\* subscriber of the poller, which logs it as an error; either way the
\* facade stays started and the poller goes on to the next work cycle.
C29_InlineScriptsDisabled ==
  /\ [][/\ ClaimRejects("inlineScriptsDisabled") =>
            /\ logged' = logged \cup {"warn"}
            /\ published' = <<>>
            /\ cycle' = NoCycle
            /\ NothingClaimed
            /\ isStarted' = isStarted
        /\ ClaimRejects("storeFailure") =>
            /\ isStarted => logged' = logged \cup {"error"}
            /\ cycle' = NoCycle
            /\ NothingClaimed
            /\ isStarted' = isStarted]_vars
  /\ []((isStarted /\ cycle.stage = "idle" /\ logged # {}) => ENABLED PollForWork)

\* a claim has failed on inline scripts and another on a store failure; the
\* facade is started and its next claim is under way
C29_Witness ==
  /\ isStarted
  /\ {"warn", "error"} \subseteq logged
  /\ cycle.stage = "claiming"
  /\ pool[Facade] = {}

\* the claim of some work cycle has failed on inline scripts before
InlineErrorSeen == "warn" \in logged

\* this step sends a claim to the store
SendsClaim == cycle.stage = "idle" /\ cycle'.stage = "claiming"

\* C30 as stated: once a claim has failed because inline scripts are
\* disabled, the instance sends no further claim to the store.
C30_NoClaimAfterInlineError ==
  [][InlineErrorSeen => ~SendsClaim]_vars

\* C30: a claim that fails because inline scripts are disabled stops
\* nothing and is not remembered: the facade stays started, the next work
\* cycle is enabled, and a work cycle that finds workers free after the
\* failure sends a claim for them again.
C30_InlineErrorIsRetried ==
  /\ [][/\ ClaimRejects("inlineScriptsDisabled") =>
            isStarted' = isStarted /\ plugin' = plugin /\ pool' = pool
        /\ (PollForWork /\ InlineErrorSeen
              /\ Cardinality(pool[Facade]) < MaxWorkers) =>
            /\ SendsClaim
            /\ cycle'.size = MaxWorkers - Cardinality(pool[Facade])]_vars
  /\ []((InlineErrorSeen /\ isStarted /\ cycle.stage = "idle") =>
          ENABLED PollForWork)

\* after a claim that failed on inline scripts, and no other failure, the
\* next claim is under way
C30_Witness ==
  /\ isStarted
  /\ logged = {"warn"}
  /\ cycle.stage = "claiming"
  /\ cycle.size = MaxWorkers

(***************************************************************************)
(* Properties of start and stop.                                           *)
(***************************************************************************)
\* the runners of the pool are the ones it held, each of them cancelled
AllCancelled ==
  pool'[Facade] = cancelRunningTasks(pool[Facade])

\* C31: start and stop are idempotent over any sequence of calls.  isStarted
\* is false at first, true after every start and false after every stop; it
\* is the negation of pollingSubscription.closed, and poller$ never has more
\* than one subscriber: one when started, none otherwise.  A start while
\* started subscribes nothing; a stop while not started neither unsubscribes
\* nor cancels; a stop while started unsubscribes and then cancels every
\* runner the pool holds.
C31_StartStopIdempotent ==
  /\ ~isStarted
  /\ [](isStarted <=> ~subscription.closed)
  /\ [](subscription.subscribers = IF isStarted THEN 1 ELSE 0)
  /\ [][TaskManagerStart =>
          /\ isStarted'
          /\ subscription'.did =
               IF isStarted THEN <<"start">> ELSE <<"start", "subscribe">>
          /\ isStarted => subscription'.subscribers = subscription.subscribers
          /\ pool' = pool]_vars
  /\ [][TaskManagerStop =>
          /\ ~isStarted'
          /\ subscription'.subscribers = 0
          /\ ~isStarted =>
               /\ subscription'.did = <<"stop">>
               /\ pool' = pool
          /\ isStarted =>
               /\ subscription'.did = <<"stop", "unsubscribe", "cancelRunningTasks">>
               /\ AllCancelled]_vars

\* a stopped facade whose pool still holds the runners the stop cancelled is
\* stopped once more
C31_Witness ==
  /\ ~isStarted
  /\ subscription.did = <<"stop">>
  /\ pool[Facade] # {}
  /\ \A r \in pool[Facade] : r.cancelled

(***************************************************************************)
(* Properties of the poller.                                               *)
(***************************************************************************)
\* a work call is under way whose time is not up yet
WorkInFlight == poller.work /\ poller.elapsed < workTimeout

\* C32: every work call is bounded by workTimeout = pollInterval x
\* maxPollInactivityCycles; the monitor recreates the poller only after
\* inactivityTimeout = pollInterval x (maxPollInactivityCycles + 1) without
\* an emission; the second exceeds the first by exactly one pollInterval,
\* so that the monitor never recreates the poller while a work call is
\* under way whose time is not up; and neither the timeout nor the
\* recreation touches the runners the pool holds.
C32_WorkTimedOutBeforeRecreation ==
  /\ [](inactivityTimeout - workTimeout = PollInterval)
  /\ [](poller.work => poller.elapsed <= workTimeout)
  /\ [][MonitorRecreates => poller.since > inactivityTimeout]_vars
  /\ [][MonitorRecreates => ~WorkInFlight]_vars
  /\ [][WorkTimesOut \/ MonitorRecreates => pool' = pool]_vars

\* the poller starts a work cycle
StartsCycle == PollerEmits(TRUE) \/ PollerEmits(FALSE)

LeavesBuffer == { id \in Range(requests) : id \notin Range(requests') }

\* an Err event for id is published in this step
AnsweredByErr(id) ==
  \E i \in 1..Len(published') :
    published'[i].id = id /\ published'[i].tag = "err"

\* C34: no requested id is dropped.  Every id that leaves the poller's
\* buffer is passed to the store in claimTasksById of the claim the work
\* cycle sends, or is answered by an Err event, also when more ids are
\* handed over than there are workers free and when no worker is free.
C34_NoRequestDropped ==
  [][\A id \in LeavesBuffer :
       \/ cycle'.stage = "claiming" /\ id \in cycle'.claimTasksById
       \/ AnsweredByErr(id)]_vars

(***************************************************************************)
(* Properties of runNow against the runs of the pool.                      *)
(***************************************************************************)
\* C35: a runNow promise is resolved only by the Run(Ok) of an execution
\* claimed after its request was enqueued.  When a promise resolves, the
\* request for its task is no longer waiting in the poller's buffer (a run
\* that ends while the request waits was claimed before it), and the same
\* Run(Ok) resolves the promise of no other caller.
C35_ResolvedByOwnRun ==
  [][\A c \in ResolvedNow :
       /\ ~Contains(requests, calls[c].taskId)
       /\ \A d \in ResolvedNow : calls[d].taskId = calls[c].taskId => d = c]_vars

(***************************************************************************)
(* Properties of the rejection after a Claim(Err).                         *)
(***************************************************************************)
\* a Claim(Err) event for the task of call c is published in this step
ClaimErrFor(c) ==
  \E i \in 1..Len(published') :
    /\ isTaskClaimEvent(published'[i])
    /\ published'[i].tag = "err"
    /\ published'[i].id = calls[c].taskId

\* the message that goes with a status
MessageFor(status) ==
  CASE status = NotFound -> "notExist"
    [] status \in {"running", "claiming"} -> "currentlyRunning"
    [] status = LifecycleError -> "lifecycleFailed"
    [] OTHER -> "unknown"

\* C36: every Claim(Err) event on a pending runNow ends in a rejection.  The
\* event ends the subscription and keeps the task it carries; the promise
\* is then rejected, and never left waiting, with the message of the
\* carried task's status whatever getLifecycle would say, and without a
\* carried task with the message of what getLifecycle answers: "does not
\* exist" for NotFound, "currently running" for running and claiming,
\* "failed to get current Status" when getLifecycle fails, "unknown reason"
\* for any other status.
C36_ClaimErrRejects ==
  /\ [][\A c \in Callers :
          calls[c].phase = "pending" /\ calls[c].subscribed /\ ClaimErrFor(c) =>
            /\ calls'[c].phase = "lifecycle"
            /\ ~calls'[c].subscribed]_vars
  /\ [][\A c \in Callers :
          calls[c].phase = "lifecycle" /\ calls'[c] # calls[c] =>
            /\ calls'[c].phase = "rejected"
            /\ calls'[c].by = "Claim.err"
            /\ \A l \in Lifecycles :
                 SettleClaimErr(c, l) =>
                   calls'[c].result =
                     IF calls[c].carried # NoTask
                     THEN MessageFor(calls[c].carried)
                     ELSE MessageFor(l)]_vars
  /\ \A c \in Callers :
       calls[c].phase = "lifecycle" ~> calls[c].phase = "rejected"

\* one promise was rejected as currently running by the status of the task
\* its Claim(Err) carried, another, whose event carried no task, because
\* getLifecycle failed
C36_Witness ==
  \E c, d \in Callers :
    /\ calls[c].phase = "rejected" /\ calls[c].by = "Claim.err"
    /\ calls[c].carried \in {"running", "claiming"}
    /\ calls[c].result = "currentlyRunning"
    /\ calls[d].phase = "rejected" /\ calls[d].by = "Claim.err"
    /\ calls[d].carried = NoTask
    /\ calls[d].result = "lifecycleFailed"

====
